---------------------------- MODULE Spec2Model ----------------------------
(***************************************************************************)
(* A model of angelina, an embedded property-graph database on top of an   *)
(* ordered key-value store (sled).                                         *)
(*                                                                         *)
(* Bytes are naturals in 0..255, byte strings are sequences of bytes.      *)
(* Rust strings handed to the codec are modelled by their UTF-8 bytes      *)
(* (ASCII only, so from_utf8 never fails).  The store is a function from   *)
(* tree name to a finite map from key bytes to value bytes.                *)
(***************************************************************************)
EXTENDS Integers, Sequences, FiniteSets, TLC

VARIABLES
    db,      \* SledEngine.db: tree name -> (key bytes -> value bytes)
    ret,     \* the last completed operation: its name, arguments and result
    calls,   \* ghost: <<tree, key>> -> number of completed increment calls
    props,   \* a Properties value on its own: Properties.data
    plog,    \* ghost: what was added to props and not removed since, and counts
    held,    \* the caller's Edge values: slot -> Edge or None
    mid,     \* the engine calls a handler that was started has still to make
    early,   \* ghost: the operations completed so far while they are at most two
    issued,  \* ghost: what the schema creates and create_edge returned, in order
    arg,     \* the input handed to a function that is checked on its own
    res      \* what that function returned for arg, NoRes before the call

vars == <<db, ret, calls, props, plog, held, mid, early, issued, arg, res>>

propsVars == <<props, plog>>
\* the variables of the specifications of pure functions
pureVars == <<arg, res>>
handlerVars == <<held, mid, early, issued>>

\* Option::None
None == [none |-> TRUE]
\* a call that ended in a panic
Panic == [panic |-> TRUE]
\* no operation has completed yet
NoRet == [op |-> "none"]
\* no input was drawn, the function under check was not called
NoArg == [kind |-> "none"]
NoRes == [called |-> FALSE]

-----------------------------------------------------------------------------
(* Bounds of the model                                                     *)

\* largest value a counter row may reach (u64 in the source: no run of the
\* model gets near 2^64, where `number + 1` would overflow)
MaxCount == 3
\* largest id the schema counter hands out
MaxSchemaId == 1
\* largest edge_id the edge counter hands out
MaxEdgeId == 1
\* largest prop_id an edge's property counter hands out
MaxEdgePropId == 0

-----------------------------------------------------------------------------
(* datamodel/buffer.rs: big-endian integers and terminated strings         *)

\* crate::datamodel::constants::STRING_TERM (constants.rs is not in src/;
\* spec.md section 4.1 fixes the terminator at 0x00)
STRING_TERM == 0

\* Buffer::put_u64: eight bytes, most significant first.  Values of the
\* model are below 2^31, so the four high bytes are zero.
put_u64(n) ==
    << 0, 0, 0, 0,
       (n \div 16777216) % 256, (n \div 65536) % 256, (n \div 256) % 256, n % 256 >>

\* u64::from_be_bytes over a sequence of bytes
RECURSIVE from_be_bytes(_)
from_be_bytes(b) ==
    IF b = <<>> THEN 0
    ELSE from_be_bytes(SubSeq(b, 1, Len(b) - 1)) * 256 + b[Len(b)]

\* Buffer::put_string: the raw bytes followed by the terminator
put_string(s) == s \o <<STRING_TERM>>

Drop(b, n) == SubSeq(b, n + 1, Len(b))

\* Buffer::get_u8 / get_u64: [ok, val, rest]; ok = FALSE is the panic of the
\* bytes crate when fewer bytes remain than are asked for.  A u64 read from
\* a buffer is kept as its eight big-endian bytes (any u64 at all can be
\* read from a damaged buffer); from_be_bytes gives its number where the
\* source computes with it, and u64 values are compared through put_u64.
get_u8(b) ==
    IF Len(b) >= 1 THEN [ok |-> TRUE, val |-> b[1], rest |-> Drop(b, 1)]
    ELSE [ok |-> FALSE, val |-> 0, rest |-> b]

get_u64(b) ==
    IF Len(b) >= 8
    THEN [ok |-> TRUE, val |-> SubSeq(b, 1, 8), rest |-> Drop(b, 8)]
    ELSE [ok |-> FALSE, val |-> <<>>, rest |-> b]

\* Buffer::get_string_raw: consume bytes up to and including the first
\* terminator; running off the end is a panic (ok = FALSE)
RECURSIVE get_string_raw(_)
get_string_raw(b) ==
    IF b = <<>> THEN [ok |-> FALSE, val |-> <<>>, rest |-> <<>>]
    ELSE IF b[1] = STRING_TERM THEN [ok |-> TRUE, val |-> <<>>, rest |-> Drop(b, 1)]
    ELSE LET r == get_string_raw(Drop(b, 1))
         IN  [ok |-> r.ok, val |-> <<b[1]>> \o r.val, rest |-> r.rest]

\* format!("{}", n) / u64::to_string: decimal ASCII digits
RECURSIVE to_string(_)
to_string(n) ==
    IF n < 10 THEN <<48 + n>> ELSE to_string(n \div 10) \o <<48 + (n % 10)>>

-----------------------------------------------------------------------------
(* handlers/sled_engine.rs                                                 *)

Trees == {"SCHEMA", "VERTEX", "EDGE"}

EmptyTree == [k \in {} |-> <<>>]

\* SledEngine::new_tmp: a fresh temporary store, every tree empty
new_tmp == [t \in Trees |-> EmptyTree]

\* SledEngine::get
get(store, tree_name, key) ==
    IF key \in DOMAIN store[tree_name] THEN store[tree_name][key] ELSE None

\* SledEngine::insert
insert(store, tree_name, key, value) ==
    [store EXCEPT ![tree_name] =
        [k \in (DOMAIN @) \cup {key} |-> IF k = key THEN value ELSE @[k]]]

\* SledEngine::remove
remove(store, tree_name, key) ==
    [store EXCEPT ![tree_name] = [k \in (DOMAIN @) \ {key} |-> @[k]]]

\* SledEngine::bytes_to_long: try_into::<[u8; 8]>().unwrap() needs exactly 8 bytes
bytes_to_long(bytes) == from_be_bytes(bytes)

\* a variant that numbers from one
increment_FromOne(store, tree_name, key) ==
    LET old == get(store, tree_name, key)
        number == IF old = None THEN 1 ELSE bytes_to_long(old) + 1
    IN  [db |-> insert(store, tree_name, key, put_u64(number)), val |-> number]

\* SledEngine::increment: update_and_fetch writes 0 under a missing key and
\* old + 1 otherwise, and returns the value written
increment(store, tree_name, key) ==
    LET old == get(store, tree_name, key)
        number == IF old = None THEN 0 ELSE bytes_to_long(old) + 1
    IN  [db |-> insert(store, tree_name, key, put_u64(number)), val |-> number]

\* the value increment will write next under a key
NextCount(store, tree_name, key) ==
    IF get(store, tree_name, key) = None THEN 0
    ELSE bytes_to_long(get(store, tree_name, key)) + 1

-----------------------------------------------------------------------------
(* The engine on its own: increment on several keys of several trees,      *)
(* interleaved with insert and remove on data keys (test_sled_crud,        *)
(* test_increment).                                                        *)

\* "11" and "SCHEMA_ID"
EngineCounterKeys == { <<49, 49>>, <<83, 67, 72, 69, 77, 65, 95, 73, 68>> }
\* "key1"
EngineDataKeys == { <<107, 101, 121, 49>> }
\* "v1", "v2"
EngineValues == { <<118, 49>>, <<118, 50>> }
EngineTrees == {"SCHEMA", "EDGE"}

NoCalls == [p \in EngineTrees \X EngineCounterKeys |-> 0]

\* the caller's variables that hold an Edge
Slots == {1}
NoHeld == [s \in Slots |-> None]
\* no handler is between two engine calls
NoMid == [op |-> "none"]
\* more than two operations have completed
Many == <<[op |-> "many"]>>
Early(e, o) == IF e # Many /\ Len(e) < 2 THEN Append(e, o) ELSE Many

NoneIssued == [schema |-> <<>>, edge |-> <<>>]

NoLog == [recs |-> <<>>, adds |-> 0, removed |-> 0, anyRemove |-> FALSE]

EngineInit ==
    /\ db = new_tmp
    /\ calls = NoCalls
    /\ ret = NoRet
    /\ props = <<>>
    /\ plog = NoLog
    /\ held = NoHeld
    /\ mid = NoMid
    /\ early = <<>>
    /\ issued = NoneIssued
    /\ arg = NoArg
    /\ res = NoRes

EngIncrement(t, k) ==
    /\ NextCount(db, t, k) <= MaxCount
    /\ LET r == increment(db, t, k)
       IN  /\ db' = r.db
           /\ ret' = [op |-> "increment", tree |-> t, key |-> k, val |-> r.val]
    /\ calls' = [calls EXCEPT ![<<t, k>>] = @ + 1]
    /\ UNCHANGED <<pureVars, propsVars, handlerVars>>

EngInsert(t, k, v) ==
    /\ db' = insert(db, t, k, v)
    /\ ret' = [op |-> "insert"]
    /\ UNCHANGED <<pureVars, calls, propsVars, handlerVars>>

EngRemove(t, k) ==
    /\ db' = remove(db, t, k)
    /\ ret' = [op |-> "remove"]
    /\ UNCHANGED <<pureVars, calls, propsVars, handlerVars>>

EngGet(t, k) ==
    /\ ret' = [op |-> "get", val |-> get(db, t, k)]
    /\ UNCHANGED <<pureVars, db, calls, propsVars, handlerVars>>

EngineNext ==
    \/ \E t \in EngineTrees, k \in EngineCounterKeys : EngIncrement(t, k)
    \/ \E t \in EngineTrees, k \in EngineDataKeys, v \in EngineValues : EngInsert(t, k, v)
    \/ \E t \in EngineTrees, k \in EngineDataKeys : EngRemove(t, k)
    \/ \E t \in EngineTrees, k \in EngineDataKeys : EngGet(t, k)

EngineSpec == EngineInit /\ [][EngineNext]_vars

\* C2: the n-th call to increment on a tree and key returns n-1, whatever was
\* incremented, inserted or removed under other keys and in other trees
C2_IncrementCountsFromZero ==
    ret.op = "increment"
        => ret.val = calls[<<ret.tree, ret.key>>] - 1

\* a third call on one key has returned 2 while another key of the same tree
\* and the same key of another tree were incremented a different number of times
C2_Witness ==
    /\ ret.op = "increment" /\ ret.val = 2
    /\ \E p \in DOMAIN calls :
          /\ p[1] = ret.tree /\ p[2] # ret.key /\ calls[p] = 1
    /\ \E p \in DOMAIN calls :
          /\ p[1] # ret.tree /\ p[2] = ret.key /\ calls[p] = 4

-----------------------------------------------------------------------------
(* datamodel/property.rs: the properties blob                              *)
(*                                                                         *)
(* A record is key_id:u64, value_len:u64, prop_id:u64, value bytes,        *)
(* terminator.  Reading never uses value_len: a value ends at the first    *)
(* terminator byte.                                                        *)

\* One turn of the loops of PropertyIterator::next and Properties::remove_property:
\* three get_u64 and a get_string; ok = FALSE when one of them panics
read_record(b) ==
    LET k == get_u64(b)
        l == get_u64(k.rest)
        p == get_u64(l.rest)
        v == get_string_raw(p.rest)
    IN  IF k.ok /\ l.ok /\ p.ok /\ v.ok
        THEN [ok |-> TRUE,
              rec |-> [key |-> k.val, len |-> l.val, id |-> p.val, value |-> v.val],
              rest |-> v.rest]
        ELSE [ok |-> FALSE, rec |-> None, rest |-> b]

\* `while has_remaining() { ... }` over a blob: the records read, and whether
\* the loop ended with the blob exhausted (ok) or in a panic
RECURSIVE read_all(_)
read_all(b) ==
    IF b = <<>> THEN [ok |-> TRUE, recs |-> <<>>]
    ELSE LET r == read_record(b)
         IN  IF ~r.ok THEN [ok |-> FALSE, recs |-> <<>>]
             ELSE LET t == read_all(r.rest)
                  IN  [ok |-> t.ok, recs |-> <<r.rec>> \o t.recs]

\* struct Property {key, id, value}, key and id as their big-endian bytes
Property(rec) == [key |-> rec.key, id |-> rec.id, value |-> rec.value]

ToProperties(recs) == [i \in 1..Len(recs) |-> Property(recs[i])]

\* Properties::get_properties, collected: the items the iterator yields and
\* whether it ran to the end of the blob
get_properties(data) ==
    LET r == read_all(data) IN [ok |-> r.ok, items |-> ToProperties(r.recs)]

\* Properties::get_property(key_id), collected
get_property(data, key_id) ==
    LET r == read_all(data)
        Wanted(rec) == rec.key = put_u64(key_id)
    IN  [ok |-> r.ok, items |-> ToProperties(SelectSeq(r.recs, Wanted))]

write_record(rec) ==
    rec.key \o rec.len \o rec.id \o rec.value \o <<STRING_TERM>>

RECURSIVE write_all(_)
write_all(recs) ==
    IF recs = <<>> THEN <<>> ELSE write_record(Head(recs)) \o write_all(Tail(recs))

\* a variant that keeps one value per key, as Single cardinality would
Properties_add_property_Replacing(data, key, prop_id, value) ==
    LET Other(rec) == rec.key # put_u64(key)
    IN  write_all(SelectSeq(read_all(data).recs, Other))
            \o put_u64(key) \o put_u64(Len(value)) \o put_u64(prop_id) \o put_string(value)

\* Properties::add_property
Properties_add_property(data, key, prop_id, value) ==
    data \o put_u64(key) \o put_u64(Len(value)) \o put_u64(prop_id) \o put_string(value)

\* a variant that forgets the key and drops by prop_id alone
Properties_remove_property_AnyKey(data, key, prop_id) ==
    LET r == read_all(data)
        Kept(rec) == ~(prop_id = {} \/ rec.id \in {put_u64(p) : p \in prop_id})
    IN  IF r.ok THEN [ok |-> TRUE, data |-> write_all(SelectSeq(r.recs, Kept))]
        ELSE [ok |-> FALSE, data |-> data]

\* Properties::remove_property: re-read every record and write back those
\* that are not dropped; self.data is assigned only when the loop ends, so a
\* panic leaves it as it was.  prop_id: Vec<u64> is used through is_empty and
\* contains only, so a set stands for it.
Properties_remove_property(data, key, prop_id) ==
    LET r == read_all(data)
        Kept(rec) ==
            ~(put_u64(key) = rec.key
                /\ (prop_id = {} \/ rec.id \in {put_u64(p) : p \in prop_id}))
    IN  IF r.ok THEN [ok |-> TRUE, data |-> write_all(SelectSeq(r.recs, Kept))]
        ELSE [ok |-> FALSE, data |-> data]

-----------------------------------------------------------------------------
(* A Properties value under add_property and remove_property               *)
(* (test_multi_property and the other tests of property.rs).               *)

\* most add_property calls in a run of the model
MaxAdds == 3

PropKeyIds == {12, 13}
PropIds == {99, 100}

\* "", "ab"
TermFreeValues == { <<>>, <<97, 98>> }
\* the same and a string that holds the terminator byte: "a\0b"
AnyValues == TermFreeValues \cup { <<97, 0, 98>> }

\* ghost: the records the calls describe, (key, prop_id, value) in the order
\* of the add_property calls and without the ones remove_property named
LogAdd(l, key, prop_id, value) ==
    [l EXCEPT !.recs = Append(@, [key |-> put_u64(key), id |-> put_u64(prop_id),
                                  value |-> value]),
              !.adds = @ + 1]

LogRemove(l, key, prop_id) ==
    LET Named(rec) ==
            /\ rec.key = put_u64(key)
            /\ (prop_id = {} \/ \E p \in prop_id : rec.id = put_u64(p))
        Kept(rec) == ~Named(rec)
    IN  [l EXCEPT !.recs = SelectSeq(@, Kept),
                  !.removed = @ + Len(SelectSeq(l.recs, Named)),
                  !.anyRemove = TRUE]

PropsInit ==
    /\ db = new_tmp
    /\ calls = NoCalls
    /\ ret = NoRet
    /\ props = <<>>
    /\ plog = NoLog
    /\ held = NoHeld
    /\ mid = NoMid
    /\ early = <<>>
    /\ issued = NoneIssued
    /\ arg = NoArg
    /\ res = NoRes

AddProperty(key, prop_id, value) ==
    /\ plog.adds < MaxAdds
    /\ props' = Properties_add_property(props, key, prop_id, value)
    /\ plog' = LogAdd(plog, key, prop_id, value)
    /\ ret' = [op |-> "add_property", key |-> key, id |-> prop_id, value |-> value]
    /\ UNCHANGED <<pureVars, db, calls, handlerVars>>

RemoveProperty(key, prop_id) ==
    /\ LET r == Properties_remove_property(props, key, prop_id)
       IN  /\ props' = r.data
           /\ ret' = [op |-> "remove_property", key |-> key, ids |-> prop_id,
                      before |-> read_all(props), panicked |-> ~r.ok]
    /\ plog' = LogRemove(plog, key, prop_id)
    /\ UNCHANGED <<pureVars, db, calls, handlerVars>>

PropsNextOver(values) ==
    \/ \E key \in PropKeyIds, prop_id \in PropIds, value \in values :
          AddProperty(key, prop_id, value)
    \/ \E key \in PropKeyIds, prop_id \in SUBSET PropIds :
          RemoveProperty(key, prop_id)

\* values as section 4.1 of the spec has them: without the terminator byte
PropsNext == PropsNextOver(TermFreeValues)

PropsSpec == PropsInit /\ [][PropsNext]_vars

\* any Rust string as a value, the terminator byte included
PropsAnyNext == PropsNextOver(AnyValues)

PropsAnySpec == PropsInit /\ [][PropsAnyNext]_vars

\* C8: as long as nothing was removed, get_property(key_id) yields exactly
\* the values added under key_id, in the order they were added, and
\* get_properties yields all added values in that order; an add never
\* replaces an earlier value
C8_AddsAreKeptInOrder ==
    ~plog.anyRemove =>
        /\ get_properties(props) = [ok |-> TRUE, items |-> plog.recs]
        /\ Len(get_properties(props).items) = plog.adds
        /\ \A key_id \in PropKeyIds :
              LET Under(rec) == rec.key = put_u64(key_id)
              IN  get_property(props, key_id)
                    = [ok |-> TRUE, items |-> SelectSeq(plog.recs, Under)]

\* three adds and no removal: two values under one key, a value under
\* another key added between them
C8_Witness ==
    /\ ~plog.anyRemove /\ plog.adds = 3
    /\ plog.recs[1].key = plog.recs[3].key
    /\ plog.recs[1].key # plog.recs[2].key
    /\ plog.recs[1].value # plog.recs[3].value
    /\ Len(get_property(props, 12).items) = 2

\* the records remove_property(key, ids) names among those read before it
NamedBy(r, rec) ==
    /\ rec.key = put_u64(r.key)
    /\ (r.ids = {} \/ \E p \in r.ids : rec.id = put_u64(p))

\* C9: remove_property(key, prop_ids) removes every record of the key when
\* prop_ids is empty, and otherwise exactly the records of the key whose
\* prop_id is listed; all other records remain, unchanged and in their order
C9_RemoveDropsExactlyTheNamed ==
    ret.op = "remove_property" =>
        LET Kept(rec) == ~NamedBy(ret, rec)
        IN  /\ ~ret.panicked
            /\ ret.before.ok
            /\ read_all(props) = [ok |-> TRUE, recs |-> SelectSeq(ret.before.recs, Kept)]

\* a remove with a non-empty list that dropped one of three records and
\* kept one of the same key (prop_id not listed) and one of another key
\* (prop_id listed)
C9_Witness ==
    /\ ret.op = "remove_property" /\ ret.ids # {}
    /\ Len(ret.before.recs) = 3
    /\ Len(read_all(props).recs) = 2
    /\ \E i \in 1..3 :
          /\ ret.before.recs[i].key = put_u64(ret.key)
          /\ \A p \in ret.ids : ret.before.recs[i].id # put_u64(p)
    /\ \E i \in 1..3 :
          /\ ret.before.recs[i].key # put_u64(ret.key)
          /\ \E p \in ret.ids : ret.before.recs[i].id = put_u64(p)

\* C10: after any adds and removes, with any string values, reading records
\* from the start of the blob exhausts it exactly, and the number of records
\* is the number of adds minus the number of records removed
C10_BlobIsWellFormed ==
    /\ read_all(props).ok
    /\ Len(read_all(props).recs) = plog.adds - plog.removed

-----------------------------------------------------------------------------
(* datamodel/base.rs: the one-byte kind discriminators                     *)

SchemaType_VertexLabel == 1
SchemaType_EdgeLabel == 2
SchemaType_PropertyKey == 3
ElementType_Vertex == 4
ElementType_InEdge == 5
ElementType_OutEdge == 6

-----------------------------------------------------------------------------
(* datamodel/edge.rs                                                       *)

\* struct Edge
Edge(src, dst, edge_id, label, properties) ==
    [src_vertex_id |-> src, dst_vertex_id |-> dst, edge_id |-> edge_id,
     label |-> label, properties |-> properties]

\* a variant that tags the keys of both directions as OUT
Edge_build_key_OneTag(src_id, dst_id, label, edge_id, direction) ==
    LET first_id == IF direction = "Out" THEN src_id ELSE dst_id
        second_id == IF direction = "Out" THEN dst_id ELSE src_id
    IN  <<ElementType_OutEdge>> \o put_string(first_id) \o put_u64(label)
            \o put_string(second_id) \o put_u64(edge_id)

\* Edge::build_key
Edge_build_key(src_id, dst_id, label, edge_id, direction) ==
    LET element_type == IF direction = "Out" THEN ElementType_OutEdge
                        ELSE ElementType_InEdge
        first_id == IF direction = "Out" THEN src_id ELSE dst_id
        second_id == IF direction = "Out" THEN dst_id ELSE src_id
    IN  <<element_type>> \o put_string(first_id) \o put_u64(label)
            \o put_string(second_id) \o put_u64(edge_id)

\* Edge::generate_key
Edge_generate_key(edge, direction) ==
    Edge_build_key(edge.src_vertex_id, edge.dst_vertex_id, edge.label,
                   edge.edge_id, direction)

\* Edge::serialize: the key of the direction and the properties blob as value
Edge_serialize(edge, direction) ==
    [key |-> Edge_generate_key(edge, direction), value |-> edge.properties]

\* u64::from_be_bytes of eight bytes read from a key that may be damaged:
\* a u64 at or above 2^31 is beyond the integers of the model and is shown
\* as -1, which no value of the model equals
u64_from_key(b) ==
    IF b[1] = 0 /\ b[2] = 0 /\ b[3] = 0 /\ b[4] = 0 /\ b[5] < 128
    THEN from_be_bytes(b) ELSE -1

\* Edge::deserialize: [ok, edge]; ok = FALSE when a read or the match on the
\* element type panics
Edge_deserialize(key, value) ==
    LET t == get_u8(key)
        first_id == get_string_raw(t.rest)
        edge_label == get_u64(first_id.rest)
        second_id == get_string_raw(edge_label.rest)
        edge_id == get_u64(second_id.rest)
    IN  IF ~(t.ok /\ first_id.ok /\ edge_label.ok /\ second_id.ok /\ edge_id.ok)
        THEN [ok |-> FALSE, edge |-> None]
        ELSE IF t.val = ElementType_OutEdge
        THEN [ok |-> TRUE,
              edge |-> Edge(first_id.val, second_id.val, u64_from_key(edge_id.val),
                            u64_from_key(edge_label.val), value)]
        ELSE IF t.val = ElementType_InEdge
        THEN [ok |-> TRUE,
              edge |-> Edge(second_id.val, first_id.val, u64_from_key(edge_id.val),
                            u64_from_key(edge_label.val), value)]
        ELSE [ok |-> FALSE, edge |-> None]

-----------------------------------------------------------------------------
(* handlers/edge_handler.rs                                                *)

EDGE_TABLE_NAME == "EDGE"

\* "EDGE_AUTO_INCREMENT_ID"
EdgeAutoIncrementKey ==
    <<69, 68, 71, 69, 95, 65, 85, 84, 79, 95, 73, 78, 67, 82, 69, 77, 69, 78, 84,
      95, 73, 68>>

\* format!("EDGE_PROP_AUTO_INCREMENT_ID_{}", edge_id)
EdgePropAutoIncrementKey(edge_id) ==
    <<69, 68, 71, 69, 95, 80, 82, 79, 80, 95, 65, 85, 84, 79, 95, 73, 78, 67, 82,
      69, 77, 69, 78, 84, 95, 73, 68, 95>> \o to_string(edge_id)

\* an engine call a handler makes on the EDGE tree
InsertCall(kv) == [call |-> "insert", key |-> kv.key, value |-> kv.value]
RemoveCall(key) == [call |-> "remove", key |-> key, value |-> <<>>]

\* SledEngine::insert or SledEngine::remove, as the call says
ApplyCall(store, tree_name, c) ==
    IF c.call = "insert" THEN insert(store, tree_name, c.key, c.value)
    ELSE remove(store, tree_name, c.key)

\* the calls of a list, first to last
RECURSIVE ApplyCalls(_, _, _)
ApplyCalls(store, tree_name, cs) ==
    IF cs = <<>> THEN store
    ELSE ApplyCalls(ApplyCall(store, tree_name, Head(cs)), tree_name, Tail(cs))

\* a variant that writes the OUT row first
EdgeRowWrites_OutFirst(edge) ==
    << InsertCall(Edge_serialize(edge, "Out")), InsertCall(Edge_serialize(edge, "In")) >>

\* a variant that forgets the IN row
EdgeRowWrites_OutOnly(edge) ==
    << InsertCall(Edge_serialize(edge, "Out")) >>

\* the two engine.insert calls that end create_edge, add_property and
\* remove_property, in the order of the source: the IN row, then the OUT row
EdgeRowWrites(edge) ==
    << InsertCall(Edge_serialize(edge, "In")), InsertCall(Edge_serialize(edge, "Out")) >>

\* the two engine.remove calls of remove_edge: the IN key, then the OUT key
EdgeRowRemoves(edge) ==
    << RemoveCall(Edge_generate_key(edge, "In")), RemoveCall(Edge_generate_key(edge, "Out")) >>

\* EdgeHandler::generate_next_edge_id
generate_next_edge_id(store) ==
    increment(store, EDGE_TABLE_NAME, EdgeAutoIncrementKey)

\* EdgeHandler::generate_next_prop_id
Edge_generate_next_prop_id(store, edge_id) ==
    increment(store, EDGE_TABLE_NAME, EdgePropAutoIncrementKey(edge_id))

\* EdgeHandler::create_edge up to its two inserts: the store after the id
\* was allocated, the new edge and the inserts to make
create_edge_begin(store, src_vertex_id, dst_vertex_id, label) ==
    LET r == generate_next_edge_id(store)
        edge == Edge(src_vertex_id, dst_vertex_id, r.val, label, <<>>)
    IN  [db |-> r.db, edge |-> edge, todo |-> EdgeRowWrites(edge)]

\* EdgeHandler::create_edge
create_edge(store, src_vertex_id, dst_vertex_id, label) ==
    LET b == create_edge_begin(store, src_vertex_id, dst_vertex_id, label)
    IN  [db |-> ApplyCalls(b.db, EDGE_TABLE_NAME, b.todo), edge |-> b.edge]

\* EdgeHandler::remove_edge
remove_edge(store, edge) ==
    ApplyCalls(store, EDGE_TABLE_NAME, EdgeRowRemoves(edge))

\* EdgeHandler::add_property up to its two inserts; only property_key.id is read
Edge_add_property_begin(store, edge, key_id, value) ==
    LET r == Edge_generate_next_prop_id(store, edge.edge_id)
        e == [edge EXCEPT !.properties =
                  Properties_add_property(@, key_id, r.val, value)]
    IN  [db |-> r.db, edge |-> e, todo |-> EdgeRowWrites(e)]

\* EdgeHandler::add_property
Edge_add_property(store, edge, key_id, value) ==
    LET b == Edge_add_property_begin(store, edge, key_id, value)
    IN  [db |-> ApplyCalls(b.db, EDGE_TABLE_NAME, b.todo), edge |-> b.edge]

\* EdgeHandler::remove_property up to its two inserts; a panic while the
\* blob is re-read ends the call before anything is written
Edge_remove_property_begin(store, edge, key_id, prop_id) ==
    LET r == Properties_remove_property(edge.properties, key_id, prop_id)
        e == [edge EXCEPT !.properties = r.data]
    IN  [db |-> store, edge |-> e, todo |-> IF r.ok THEN EdgeRowWrites(e) ELSE <<>>]

\* EdgeHandler::remove_property
Edge_remove_property(store, edge, key_id, prop_id) ==
    LET b == Edge_remove_property_begin(store, edge, key_id, prop_id)
    IN  [db |-> ApplyCalls(b.db, EDGE_TABLE_NAME, b.todo), edge |-> b.edge]

\* EdgeHandler::get_edge: None, or the edge decoded from the row of the direction
get_edge(store, src_id, dst_id, label, edge_id, direction) ==
    LET key == Edge_build_key(src_id, dst_id, label, edge_id, direction)
        value == get(store, EDGE_TABLE_NAME, key)
        d == Edge_deserialize(key, value)
    IN  IF value = None THEN None ELSE IF d.ok THEN d.edge ELSE Panic

-----------------------------------------------------------------------------
(* sled's Tree::scan_prefix: the rows whose key starts with the prefix, in  *)
(* the byte order of the keys                                              *)

RECURSIVE LexLess(_, _)
LexLess(a, b) ==
    IF a = <<>> THEN b # <<>>
    ELSE IF b = <<>> THEN FALSE
    ELSE IF a[1] # b[1] THEN a[1] < b[1]
    ELSE LexLess(Tail(a), Tail(b))

HasPrefix(key, prefix) ==
    Len(key) >= Len(prefix) /\ SubSeq(key, 1, Len(prefix)) = prefix

RECURSIVE InKeyOrder(_)
InKeyOrder(keys) ==
    IF keys = {} THEN <<>>
    ELSE LET least == CHOOSE k \in keys : \A o \in keys \ {k} : LexLess(k, o)
         IN  <<least>> \o InKeyOrder(keys \ {least})

scan_prefix(store, tree_name, prefix) ==
    LET ks == InKeyOrder({k \in DOMAIN store[tree_name] : HasPrefix(k, prefix)})
    IN  [i \in 1..Len(ks) |-> [key |-> ks[i], value |-> store[tree_name][ks[i]]]]

-----------------------------------------------------------------------------
(* datamodel/vertex_label.rs, edge_label.rs, property_key.rs               *)

\* EdgeMultiplicity and Cardinality as their u8 discriminants (base.rs)
EdgeMultiplicityEnum == 1..5
CardinalityEnum == 1..3

\* BaseSchemaModel::build_key, the same for the three kinds but for the tag
Schema_build_key(schema_type, id) == <<schema_type>> \o put_u64(id)

\* BaseSchemaModel::get_prefix
Schema_get_prefix(schema_type) == <<schema_type>>

\* the id of a schema key: deserialize skips the tag and reads a u64
Schema_key_id(key) == from_be_bytes(get_u64(get_u8(key).rest).val)

\* VertexLabel::serialize
VertexLabel_serialize(model) ==
    [key |-> Schema_build_key(SchemaType_VertexLabel, model.id),
     value |-> put_string(model.name)]

\* VertexLabel::deserialize_value
VertexLabel_deserialize_value(id, value) ==
    LET name == get_string_raw(value)
    IN  IF name.ok THEN [id |-> id, name |-> name.val] ELSE Panic

\* EdgeLabel::serialize
EdgeLabel_serialize(model) ==
    [key |-> Schema_build_key(SchemaType_EdgeLabel, model.id),
     value |-> put_string(model.name) \o <<model.multiplicity>>]

\* EdgeLabel::deserialize_value; EdgeMultiplicity::from(u8) panics outside 1..5
EdgeLabel_deserialize_value(id, value) ==
    LET name == get_string_raw(value)
        multiplicity == get_u8(name.rest)
    IN  IF name.ok /\ multiplicity.ok /\ multiplicity.val \in EdgeMultiplicityEnum
        THEN [id |-> id, name |-> name.val, multiplicity |-> multiplicity.val]
        ELSE Panic

\* PropertyKey::serialize
PropertyKey_serialize(model) ==
    [key |-> Schema_build_key(SchemaType_PropertyKey, model.id),
     value |-> put_string(model.name) \o <<model.cardinality>>]

\* PropertyKey::deserialize_value; Cardinality::from(u8) panics outside 1..3
PropertyKey_deserialize_value(id, value) ==
    LET name == get_string_raw(value)
        cardinality == get_u8(name.rest)
    IN  IF name.ok /\ cardinality.ok /\ cardinality.val \in CardinalityEnum
        THEN [id |-> id, name |-> name.val, cardinality |-> cardinality.val]
        ELSE Panic

-----------------------------------------------------------------------------
(* handlers/schema_handler.rs                                              *)

SCHEMA_TABLE_NAME == "SCHEMA"

\* "SCHEMA_ID"
AUTO_INCREMENT_SCHEMA_ID_KEY == <<83, 67, 72, 69, 77, 65, 95, 73, 68>>

\* a variant that numbers a new object by the rows the tree holds
generate_next_id_CountingRows(store) ==
    [db |-> store, val |-> Cardinality(DOMAIN store[SCHEMA_TABLE_NAME])]

\* SchemaHandler::generate_next_id
generate_next_id(store) ==
    increment(store, SCHEMA_TABLE_NAME, AUTO_INCREMENT_SCHEMA_ID_KEY)

\* SchemaHandler::create_vertex_label
create_vertex_label(store, name) ==
    LET r == generate_next_id(store)
        kv == VertexLabel_serialize([id |-> r.val, name |-> name])
    IN  [db |-> insert(r.db, SCHEMA_TABLE_NAME, kv.key, kv.value), id |-> r.val]

\* SchemaHandler::get_vertex_label
get_vertex_label(store, id) ==
    LET value == get(store, SCHEMA_TABLE_NAME, Schema_build_key(SchemaType_VertexLabel, id))
    IN  IF value = None THEN None ELSE VertexLabel_deserialize_value(id, value)

\* SchemaHandler::get_vertex_labels
get_vertex_labels(store) ==
    LET rows == scan_prefix(store, SCHEMA_TABLE_NAME, Schema_get_prefix(SchemaType_VertexLabel))
    IN  [i \in 1..Len(rows) |->
            VertexLabel_deserialize_value(Schema_key_id(rows[i].key), rows[i].value)]

\* a variant that changes a stored label only
update_vertex_label_IfPresent(store, id, name) ==
    LET kv == VertexLabel_serialize([id |-> id, name |-> name])
    IN  IF get(store, SCHEMA_TABLE_NAME, kv.key) = None THEN [ok |-> FALSE, db |-> store]
        ELSE [ok |-> TRUE, db |-> insert(store, SCHEMA_TABLE_NAME, kv.key, kv.value)]

\* SchemaHandler::update_vertex_label: an unconditional insert
update_vertex_label(store, id, name) ==
    LET kv == VertexLabel_serialize([id |-> id, name |-> name])
    IN  [ok |-> TRUE, db |-> insert(store, SCHEMA_TABLE_NAME, kv.key, kv.value)]

\* SchemaHandler::remove_vertex_label
remove_vertex_label(store, id) ==
    remove(store, SCHEMA_TABLE_NAME, Schema_build_key(SchemaType_VertexLabel, id))

\* SchemaHandler::create_edge_label
create_edge_label(store, name, multiplicity) ==
    LET r == generate_next_id(store)
        kv == EdgeLabel_serialize([id |-> r.val, name |-> name,
                                   multiplicity |-> multiplicity])
    IN  [db |-> insert(r.db, SCHEMA_TABLE_NAME, kv.key, kv.value), id |-> r.val]

\* SchemaHandler::get_edge_label
get_edge_label(store, id) ==
    LET value == get(store, SCHEMA_TABLE_NAME, Schema_build_key(SchemaType_EdgeLabel, id))
    IN  IF value = None THEN None ELSE EdgeLabel_deserialize_value(id, value)

\* SchemaHandler::get_edge_labels
get_edge_labels(store) ==
    LET rows == scan_prefix(store, SCHEMA_TABLE_NAME, Schema_get_prefix(SchemaType_EdgeLabel))
    IN  [i \in 1..Len(rows) |->
            EdgeLabel_deserialize_value(Schema_key_id(rows[i].key), rows[i].value)]

\* a variant that builds the new label with the first multiplicity
update_edge_label_Resetting(store, id, name) ==
    LET old == get_edge_label(store, id)
        kv == EdgeLabel_serialize([id |-> id, name |-> name, multiplicity |-> 1])
    IN  IF old = None \/ old = Panic THEN [ok |-> FALSE, db |-> store]
        ELSE [ok |-> TRUE, db |-> insert(store, SCHEMA_TABLE_NAME, kv.key, kv.value)]

\* SchemaHandler::update_edge_label: update_and_fetch on the label's key; the
\* closure panics on a missing row, and nothing is written then
update_edge_label(store, id, name) ==
    LET old == get_edge_label(store, id)
        kv == EdgeLabel_serialize([id |-> id, name |-> name,
                                   multiplicity |-> old.multiplicity])
    IN  IF old = None \/ old = Panic THEN [ok |-> FALSE, db |-> store]
        ELSE [ok |-> TRUE, db |-> insert(store, SCHEMA_TABLE_NAME, kv.key, kv.value)]

\* SchemaHandler::remove_edge_label
remove_edge_label(store, id) ==
    remove(store, SCHEMA_TABLE_NAME, Schema_build_key(SchemaType_EdgeLabel, id))

\* SchemaHandler::create_property_key
create_property_key(store, name, cardinality) ==
    LET r == generate_next_id(store)
        kv == PropertyKey_serialize([id |-> r.val, name |-> name,
                                     cardinality |-> cardinality])
    IN  [db |-> insert(r.db, SCHEMA_TABLE_NAME, kv.key, kv.value), id |-> r.val]

\* SchemaHandler::get_property_key
get_property_key(store, id) ==
    LET value == get(store, SCHEMA_TABLE_NAME, Schema_build_key(SchemaType_PropertyKey, id))
    IN  IF value = None THEN None ELSE PropertyKey_deserialize_value(id, value)

\* SchemaHandler::get_property_keys
get_property_keys(store) ==
    LET rows == scan_prefix(store, SCHEMA_TABLE_NAME, Schema_get_prefix(SchemaType_PropertyKey))
    IN  [i \in 1..Len(rows) |->
            PropertyKey_deserialize_value(Schema_key_id(rows[i].key), rows[i].value)]

\* SchemaHandler::update_property_key: as update_edge_label
update_property_key(store, id, name) ==
    LET old == get_property_key(store, id)
        kv == PropertyKey_serialize([id |-> id, name |-> name,
                                     cardinality |-> old.cardinality])
    IN  IF old = None \/ old = Panic THEN [ok |-> FALSE, db |-> store]
        ELSE [ok |-> TRUE, db |-> insert(store, SCHEMA_TABLE_NAME, kv.key, kv.value)]

\* SchemaHandler::remove_property_key
remove_property_key(store, id) ==
    remove(store, SCHEMA_TABLE_NAME, Schema_build_key(SchemaType_PropertyKey, id))

-----------------------------------------------------------------------------
(* datamodel/base.rs: the conversions of EdgeMultiplicity and Cardinality  *)

\* str::to_uppercase over ASCII bytes
to_uppercase(s) == [i \in 1..Len(s) |-> IF s[i] >= 97 /\ s[i] <= 122 THEN s[i] - 32 ELSE s[i]]

\* the names `impl From<&str> for EdgeMultiplicity` matches, by discriminant:
\* "ONE2ONE", "ONE2MANY", "MANY2ONE", "MANY2MANYSIMPLE", "MANY2MANYMULTI"
EdgeMultiplicityUpper ==
    << <<79, 78, 69, 50, 79, 78, 69>>,
       <<79, 78, 69, 50, 77, 65, 78, 89>>,
       <<77, 65, 78, 89, 50, 79, 78, 69>>,
       <<77, 65, 78, 89, 50, 77, 65, 78, 89, 83, 73, 77, 80, 76, 69>>,
       <<77, 65, 78, 89, 50, 77, 65, 78, 89, 77, 85, 76, 84, 73>> >>

\* impl From<&str> for EdgeMultiplicity: [ok, val], ok = FALSE for the panic
EdgeMultiplicity_from_str(value) ==
    LET u == to_uppercase(value)
    IN  IF \E m \in EdgeMultiplicityEnum : EdgeMultiplicityUpper[m] = u
        THEN [ok |-> TRUE, val |-> CHOOSE m \in EdgeMultiplicityEnum : EdgeMultiplicityUpper[m] = u]
        ELSE [ok |-> FALSE, val |-> 0]

\* impl Display for EdgeMultiplicity: "One2One", "One2Many", "Many2One",
\* "Many2ManySimple", "Many2ManyMulti"
EdgeMultiplicity_to_string(m) ==
    << <<79, 110, 101, 50, 79, 110, 101>>,
       <<79, 110, 101, 50, 77, 97, 110, 121>>,
       <<77, 97, 110, 121, 50, 79, 110, 101>>,
       <<77, 97, 110, 121, 50, 77, 97, 110, 121, 83, 105, 109, 112, 108, 101>>,
       <<77, 97, 110, 121, 50, 77, 97, 110, 121, 77, 117, 108, 116, 105>> >>[m]

\* the names `impl From<&str> for Cardinality` matches: "SINGLE", "LIST", "SET"
CardinalityUpper ==
    << <<83, 73, 78, 71, 76, 69>>, <<76, 73, 83, 84>>, <<83, 69, 84>> >>

\* impl From<&str> for Cardinality: [ok, val], ok = FALSE for the panic
Cardinality_from_str(value) ==
    LET u == to_uppercase(value)
    IN  IF \E c \in CardinalityEnum : CardinalityUpper[c] = u
        THEN [ok |-> TRUE, val |-> CHOOSE c \in CardinalityEnum : CardinalityUpper[c] = u]
        ELSE [ok |-> FALSE, val |-> 0]

\* impl Display for Cardinality: "Single", "List", "Set"
Cardinality_to_string(c) ==
    << <<83, 105, 110, 103, 108, 101>>, <<76, 105, 115, 116>>, <<83, 101, 116>> >>[c]

-----------------------------------------------------------------------------
(* datamodel/vertex.rs                                                     *)

Vertex(id, label, properties) ==
    [id |-> id, label |-> label, properties |-> properties]

\* Vertex::build_key
Vertex_build_key(id) == <<ElementType_Vertex>> \o put_string(id)

\* Vertex::serialize: the label, then the properties blob
Vertex_serialize(vertex) ==
    [key |-> Vertex_build_key(vertex.id),
     value |-> put_u64(vertex.label) \o vertex.properties]

\* Vertex::deserialize_value: what follows the label is the properties blob
Vertex_deserialize_value(id, value) ==
    LET label == get_u64(value)
    IN  IF label.ok THEN Vertex(id, from_be_bytes(label.val), label.rest)
        ELSE Panic

\* Vertex::deserialize: the id is read from the key up to the terminator
Vertex_deserialize(key, value) ==
    LET t == get_u8(key)
        id == get_string_raw(t.rest)
    IN  IF t.ok /\ id.ok THEN Vertex_deserialize_value(id.val, value)
        ELSE Panic

-----------------------------------------------------------------------------
(* handlers/vertex_handler.rs                                              *)

VERTEX_TABLE_NAME == "VERTEX"

\* format!("VERTEX_PROP_AUTO_INCREMENT_ID_{}", vertex_id)
VertexPropAutoIncrementKey(vertex_id) ==
    <<86, 69, 82, 84, 69, 88, 95, 80, 82, 79, 80, 95, 65, 85, 84, 79, 95, 73, 78,
      67, 82, 69, 77, 69, 78, 84, 95, 73, 68, 95>> \o vertex_id

\* a variant of the counter that starts again when the vertex has no row
Vertex_generate_next_prop_id_PerRow(store, vertex_id) ==
    IF get(store, VERTEX_TABLE_NAME, Vertex_build_key(vertex_id)) = None
    THEN [db |-> insert(store, VERTEX_TABLE_NAME,
                        VertexPropAutoIncrementKey(vertex_id), put_u64(0)),
          val |-> 0]
    ELSE increment(store, VERTEX_TABLE_NAME, VertexPropAutoIncrementKey(vertex_id))

\* VertexHandler::generate_next_prop_id
Vertex_generate_next_prop_id(store, vertex_id) ==
    increment(store, VERTEX_TABLE_NAME, VertexPropAutoIncrementKey(vertex_id))

\* a variant that keeps a row that is already there
create_vertex_IfAbsent(store, id, label) ==
    LET vertex == Vertex(id, label, <<>>)
        kv == Vertex_serialize(vertex)
    IN  IF get(store, VERTEX_TABLE_NAME, kv.key) # None
        THEN [db |-> store, vertex |-> vertex]
        ELSE [db |-> insert(store, VERTEX_TABLE_NAME, kv.key, kv.value),
              vertex |-> vertex]

\* VertexHandler::create_vertex: the row is written whether or not the id
\* is already there
create_vertex(store, id, label) ==
    LET vertex == Vertex(id, label, <<>>)
        kv == Vertex_serialize(vertex)
    IN  [db |-> insert(store, VERTEX_TABLE_NAME, kv.key, kv.value),
         vertex |-> vertex]

\* a variant that also drops the rows of the EDGE tree that start at the vertex
remove_vertex_Cascading(store, id) ==
    LET Touches(k) == \/ HasPrefix(k, <<ElementType_OutEdge>> \o put_string(id))
                      \/ HasPrefix(k, <<ElementType_InEdge>> \o put_string(id))
        s == remove(store, VERTEX_TABLE_NAME, Vertex_build_key(id))
    IN  [s EXCEPT ![EDGE_TABLE_NAME] =
            [k \in {j \in DOMAIN @ : ~Touches(j)} |-> @[k]]]

\* VertexHandler::remove_vertex
remove_vertex(store, id) ==
    remove(store, VERTEX_TABLE_NAME, Vertex_build_key(id))

\* a variant that appends the record to the blob of the stored row
Vertex_add_property_Merging(store, vertex, key_id, value) ==
    LET r == increment(store, VERTEX_TABLE_NAME, VertexPropAutoIncrementKey(vertex.id))
        key == Vertex_build_key(vertex.id)
        old == get(r.db, VERTEX_TABLE_NAME, key)
        v == [vertex EXCEPT !.properties =
                  Properties_add_property(@, key_id, r.val, value)]
        row == IF old = None THEN Vertex_serialize(v).value
               ELSE Properties_add_property(old, key_id, r.val, value)
    IN  [db |-> insert(r.db, VERTEX_TABLE_NAME, key, row), vertex |-> v]

\* VertexHandler::add_property; only property_key.id is read
Vertex_add_property(store, vertex, key_id, value) ==
    LET r == Vertex_generate_next_prop_id(store, vertex.id)
        v == [vertex EXCEPT !.properties =
                  Properties_add_property(@, key_id, r.val, value)]
        kv == Vertex_serialize(v)
    IN  [db |-> insert(r.db, VERTEX_TABLE_NAME, kv.key, kv.value), vertex |-> v]

\* VertexHandler::remove_property; a panic while the blob is re-read ends
\* the call before anything is written
Vertex_remove_property(store, vertex, key_id, prop_id) ==
    LET r == Properties_remove_property(vertex.properties, key_id, prop_id)
        v == [vertex EXCEPT !.properties = r.data]
        kv == Vertex_serialize(v)
    IN  [db |-> IF r.ok THEN insert(store, VERTEX_TABLE_NAME, kv.key, kv.value)
                ELSE store,
         vertex |-> v]

\* VertexHandler::get_vertex
get_vertex(store, id) ==
    LET value == get(store, VERTEX_TABLE_NAME, Vertex_build_key(id))
    IN  IF value = None THEN None ELSE Vertex_deserialize_value(id, value)

-----------------------------------------------------------------------------
(* The handlers over one store.  Every action is one handler call run to   *)
(* its end (section 5 of the spec: one statement at a time).               *)

Init ==
    /\ db = new_tmp
    /\ calls = NoCalls
    /\ ret = NoRet
    /\ props = <<>>
    /\ plog = NoLog
    /\ held = NoHeld
    /\ mid = NoMid
    /\ early = <<>>
    /\ issued = NoneIssued
    /\ arg = NoArg
    /\ res = NoRes

notHandler == <<calls, props, plog, mid>>

IssueSchema(kind, id, attr) ==
    [issued EXCEPT !.schema = Append(@, [id |-> id, kind |-> kind, attr |-> attr])]

SchemaIdFree == NextCount(db, SCHEMA_TABLE_NAME, AUTO_INCREMENT_SCHEMA_ID_KEY) <= MaxSchemaId

CreateVertexLabel(name) ==
    /\ SchemaIdFree
    /\ LET r == create_vertex_label(db, name)
       IN  /\ db' = r.db
           /\ ret' = [op |-> "create_vertex_label", id |-> r.id]
           /\ issued' = IssueSchema("VertexLabel", r.id, 0)
    /\ early' = Early(early, [op |-> "create_vertex_label"])
    /\ UNCHANGED <<pureVars, notHandler, held>>

CreateEdgeLabel(name, multiplicity) ==
    /\ SchemaIdFree
    /\ LET r == create_edge_label(db, name, multiplicity)
       IN  /\ db' = r.db
           /\ ret' = [op |-> "create_edge_label", id |-> r.id]
           /\ issued' = IssueSchema("EdgeLabel", r.id, multiplicity)
    /\ early' = Early(early, [op |-> "create_edge_label"])
    /\ UNCHANGED <<pureVars, notHandler, held>>

CreatePropertyKey(name, cardinality) ==
    /\ SchemaIdFree
    /\ LET r == create_property_key(db, name, cardinality)
       IN  /\ db' = r.db
           /\ ret' = [op |-> "create_property_key", id |-> r.id]
           /\ issued' = IssueSchema("PropertyKey", r.id, cardinality)
    /\ early' = Early(early, [op |-> "create_property_key"])
    /\ UNCHANGED <<pureVars, notHandler, held>>

UpdateVertexLabel(id, name) ==
    /\ LET r == update_vertex_label(db, id, name)
       IN  /\ db' = r.db
           /\ ret' = [op |-> "update_vertex_label", ok |-> r.ok]
    /\ early' = Early(early, [op |-> "update_vertex_label"])
    /\ UNCHANGED <<pureVars, notHandler, held, issued>>

UpdateEdgeLabel(id, name) ==
    /\ LET r == update_edge_label(db, id, name)
       IN  /\ db' = r.db
           /\ ret' = IF r.ok
                     THEN [op |-> "update_edge_label", ok |-> TRUE, id |-> id,
                           name |-> name, old |-> get_edge_label(db, id)]
                     ELSE [op |-> "update_edge_label", ok |-> FALSE]
    /\ early' = Early(early, [op |-> "update_edge_label"])
    /\ UNCHANGED <<pureVars, notHandler, held, issued>>

UpdatePropertyKey(id, name) ==
    /\ LET r == update_property_key(db, id, name)
       IN  /\ db' = r.db
           /\ ret' = IF r.ok
                     THEN [op |-> "update_property_key", ok |-> TRUE, id |-> id,
                           name |-> name, old |-> get_property_key(db, id)]
                     ELSE [op |-> "update_property_key", ok |-> FALSE]
    /\ early' = Early(early, [op |-> "update_property_key"])
    /\ UNCHANGED <<pureVars, notHandler, held, issued>>

RemoveVertexLabel(id) ==
    /\ db' = remove_vertex_label(db, id)
    /\ ret' = [op |-> "remove_vertex_label"]
    /\ early' = Early(early, [op |-> "remove_vertex_label"])
    /\ UNCHANGED <<pureVars, notHandler, held, issued>>

RemoveEdgeLabel(id) ==
    /\ db' = remove_edge_label(db, id)
    /\ ret' = [op |-> "remove_edge_label"]
    /\ early' = Early(early, [op |-> "remove_edge_label"])
    /\ UNCHANGED <<pureVars, notHandler, held, issued>>

RemovePropertyKey(id) ==
    /\ db' = remove_property_key(db, id)
    /\ ret' = [op |-> "remove_property_key"]
    /\ early' = Early(early, [op |-> "remove_property_key"])
    /\ UNCHANGED <<pureVars, notHandler, held, issued>>

EdgeIdFree == NextCount(db, EDGE_TABLE_NAME, EdgeAutoIncrementKey) <= MaxEdgeId

EdgePropIdFree(edge) ==
    NextCount(db, EDGE_TABLE_NAME, EdgePropAutoIncrementKey(edge.edge_id)) <= MaxEdgePropId

CreateEdge(slot, src, dst, label) ==
    /\ EdgeIdFree
    /\ LET r == create_edge(db, src, dst, label)
       IN  /\ db' = r.db
           /\ held' = [held EXCEPT ![slot] = r.edge]
           /\ ret' = [op |-> "create_edge", slot |-> slot, edge_id |-> r.edge.edge_id]
           /\ issued' = [issued EXCEPT !.edge = Append(@, r.edge.edge_id)]
    /\ early' = Early(early, [op |-> "create_edge"])
    /\ UNCHANGED <<pureVars, notHandler>>

RemoveEdge(slot) ==
    /\ held[slot] # None
    /\ db' = remove_edge(db, held[slot])
    /\ ret' = [op |-> "remove_edge", slot |-> slot]
    /\ early' = Early(early, [op |-> "remove_edge"])
    /\ UNCHANGED <<pureVars, notHandler, held, issued>>

EdgeAddProperty(slot, key_id, value) ==
    /\ held[slot] # None
    /\ EdgePropIdFree(held[slot])
    /\ LET r == Edge_add_property(db, held[slot], key_id, value)
       IN  /\ db' = r.db
           /\ held' = [held EXCEPT ![slot] = r.edge]
           /\ ret' = [op |-> "add_property", slot |-> slot]
    /\ early' = Early(early, [op |-> "add_property"])
    /\ UNCHANGED <<pureVars, notHandler, issued>>

EdgeRemoveProperty(slot, key_id, prop_id) ==
    /\ held[slot] # None
    /\ LET r == Edge_remove_property(db, held[slot], key_id, prop_id)
       IN  /\ db' = r.db
           /\ held' = [held EXCEPT ![slot] = r.edge]
           /\ ret' = [op |-> "remove_property", slot |-> slot]
    /\ early' = Early(early, [op |-> "remove_property"])
    /\ UNCHANGED <<pureVars, notHandler, issued>>

\* EdgeHandler::get_edge; the caller keeps the edge it was given
GetEdge(slot, src, dst, label, edge_id, direction) ==
    /\ LET r == get_edge(db, src, dst, label, edge_id, direction)
       IN  /\ held' = IF r = None \/ r = Panic THEN held ELSE [held EXCEPT ![slot] = r]
           /\ ret' = [op |-> "get_edge", slot |-> slot, found |-> r # None]
    /\ early' = Early(early, [op |-> "get_edge"])
    /\ UNCHANGED <<pureVars, notHandler, db, issued>>

\* inputs of the model: names "a", "b"; vertices "u1", "u2"; one edge label
Names == { <<97>>, <<98>> }
SchemaIds == 0..MaxSchemaId
\* the edges the model creates: u1 -> u2, u2 -> u1
EdgeEnds == { << <<117, 49>>, <<117, 50>> >>, << <<117, 50>>, <<117, 49>> >> }
EdgeLabelIds == {3}
EdgeIds == 0..MaxEdgeId
Directions == {"Out", "In"}
SomeMultiplicities == {1, 5}
SomeCardinalities == {1, 3}
\* "x"
EdgeValues == { <<120>> }
EdgePropKeyIds == {12}
EdgePropIds == 0..MaxEdgePropId

\* the schema handler with given names, multiplicities and cardinalities
SchemaNextOver(vertex_names, names, multiplicities, cardinalities) ==
    \/ \E name \in vertex_names : CreateVertexLabel(name)
    \/ \E name \in names, m \in multiplicities : CreateEdgeLabel(name, m)
    \/ \E name \in names, c \in cardinalities : CreatePropertyKey(name, c)
    \/ \E id \in SchemaIds, name \in vertex_names : UpdateVertexLabel(id, name)
    \/ \E id \in SchemaIds, name \in names : UpdateEdgeLabel(id, name)
    \/ \E id \in SchemaIds, name \in names : UpdatePropertyKey(id, name)
    \/ \E id \in SchemaIds : RemoveVertexLabel(id)
    \/ \E id \in SchemaIds : RemoveEdgeLabel(id)
    \/ \E id \in SchemaIds : RemovePropertyKey(id)

SchemaNext == SchemaNextOver({ <<97>> }, Names, SomeMultiplicities, SomeCardinalities)

SchemaSpec == Init /\ [][SchemaNext]_vars

\* create_edge and remove_edge between given vertices
EdgeLifeNextOver(ends) ==
    \/ \E slot \in Slots, e \in ends, label \in EdgeLabelIds :
          CreateEdge(slot, e[1], e[2], label)
    \/ \E slot \in Slots : RemoveEdge(slot)

EdgeNext ==
    \/ EdgeLifeNextOver(EdgeEnds)
    \/ \E slot \in Slots, key_id \in EdgePropKeyIds, value \in EdgeValues :
          EdgeAddProperty(slot, key_id, value)
    \/ \E slot \in Slots, key_id \in EdgePropKeyIds, prop_id \in SUBSET EdgePropIds :
          EdgeRemoveProperty(slot, key_id, prop_id)
    \/ \E slot \in Slots, e \in EdgeEnds, label \in EdgeLabelIds,
          edge_id \in EdgeIds, direction \in Directions :
          GetEdge(slot, e[1], e[2], label, edge_id, direction)

EdgeSpec == Init /\ [][EdgeNext]_vars

\* schema and edge operations on one store, in any order
Next ==
    \/ SchemaNextOver({ <<97>> }, { <<97>> }, {1}, {3})
    \/ EdgeLifeNextOver({ << <<117, 49>>, <<117, 50>> >> })

Spec == Init /\ [][Next]_vars

\* the ids of a sequence of issued schema objects
SchemaIdsIssued == [i \in 1..Len(issued.schema) |-> issued.schema[i].id]

NoRepeat(ids) == \A i, j \in 1..Len(ids) : i # j => ids[i] # ids[j]

\* both rows of an edge are absent from the EDGE tree
EdgeRowsAbsent(src, dst, label, edge_id) ==
    /\ get(db, EDGE_TABLE_NAME, Edge_build_key(src, dst, label, edge_id, "Out")) = None
    /\ get(db, EDGE_TABLE_NAME, Edge_build_key(src, dst, label, edge_id, "In")) = None

\* C3: no schema create of any of the three kinds returns an id an earlier
\* schema create returned, and no create_edge returns an edge_id an earlier
\* create_edge returned, whatever was updated or removed in between
C3_IdsAreNeverReused ==
    /\ NoRepeat(SchemaIdsIssued)
    /\ NoRepeat(issued.edge)

\* a second create_edge has just returned after the first edge was removed,
\* and two schema objects of different kinds were created, the first of them
\* removed since
C3_Witness ==
    /\ ret.op = "create_edge" /\ issued.edge = <<0, 1>>
    /\ EdgeRowsAbsent(<<117, 49>>, <<117, 50>>, 3, 0)
    /\ Len(issued.schema) = 2
    /\ issued.schema[1].kind = "VertexLabel" /\ issued.schema[2].kind = "EdgeLabel"
    /\ get_vertex_label(db, issued.schema[1].id) = None
    /\ get_edge_label(db, issued.schema[2].id) # None

\* the keys of the EDGE tree that start with a tag byte
EdgeRows(tag) == {k \in DOMAIN db[EDGE_TABLE_NAME] : k[1] = tag}

\* C1: between completed EdgeHandler operations, the OUT row and the IN row
\* of every edge are both present with equal values or both absent, and
\* get_edge gives the same edge in direction Out and in direction In
C1_EdgeRowsArePaired ==
    /\ \A k \in EdgeRows(ElementType_OutEdge) \cup EdgeRows(ElementType_InEdge) :
          LET d == Edge_deserialize(k, db[EDGE_TABLE_NAME][k])
              out == Edge_generate_key(d.edge, "Out")
              in == Edge_generate_key(d.edge, "In")
          IN  /\ d.ok
              /\ k \in {out, in}
              /\ get(db, EDGE_TABLE_NAME, out) = get(db, EDGE_TABLE_NAME, in)
    /\ \A e \in EdgeEnds, label \in EdgeLabelIds, edge_id \in EdgeIds :
          LET out == Edge_build_key(e[1], e[2], label, edge_id, "Out")
              in == Edge_build_key(e[1], e[2], label, edge_id, "In")
          IN  /\ (out \in DOMAIN db[EDGE_TABLE_NAME]) <=> (in \in DOMAIN db[EDGE_TABLE_NAME])
              /\ get(db, EDGE_TABLE_NAME, out) = get(db, EDGE_TABLE_NAME, in)
              /\ get_edge(db, e[1], e[2], label, edge_id, "Out")
                    = get_edge(db, e[1], e[2], label, edge_id, "In")

\* one edge is stored with a property in both rows, after an add_property,
\* while the rows of another edge that was created are gone
C1_Witness ==
    /\ ret.op = "add_property"
    /\ \E e \in EdgeEnds, edge_id \in EdgeIds :
          LET found == get_edge(db, e[1], e[2], 3, edge_id, "In")
          IN  /\ found # None
              /\ found = get_edge(db, e[1], e[2], 3, edge_id, "Out")
              /\ Len(get_properties(found.properties).items) = 1
    /\ \E i \in 1..Len(issued.edge) :
          \A e \in EdgeEnds : EdgeRowsAbsent(e[1], e[2], 3, issued.edge[i])
    /\ Len(issued.edge) = 2

\* the state of the EDGE tree after one create_edge, but for the counter row
OneEdgeInBothRows ==
    /\ ret.op = "create_edge" /\ ret.edge_id = 0
    /\ Cardinality(EdgeRows(ElementType_OutEdge)) = 1
    /\ Cardinality(EdgeRows(ElementType_InEdge)) = 1
    /\ \A o \in EdgeRows(ElementType_OutEdge), i \in EdgeRows(ElementType_InEdge) :
          db[EDGE_TABLE_NAME][o] = db[EDGE_TABLE_NAME][i]

\* C5 as the spec has it: after a single create_edge on a fresh store the
\* call returned edge_id 0 and the EDGE tree holds the OUT row and the IN
\* row, with equal values, and no other row
C5_TwoRowsAndNoOther ==
    early = <<[op |-> "create_edge"]>> =>
        /\ OneEdgeInBothRows
        /\ DOMAIN db[EDGE_TABLE_NAME]
              = EdgeRows(ElementType_OutEdge) \cup EdgeRows(ElementType_InEdge)

\* C5: after a single create_edge on a fresh store the call returned
\* edge_id 0 and the EDGE tree holds three rows: the OUT row and the IN row,
\* with equal values, and the counter row EDGE_AUTO_INCREMENT_ID, which holds 0
C5_TwoRowsAndTheCounter ==
    early = <<[op |-> "create_edge"]>> =>
        /\ OneEdgeInBothRows
        /\ EdgeAutoIncrementKey \in DOMAIN db[EDGE_TABLE_NAME]
        /\ DOMAIN db[EDGE_TABLE_NAME]
              = EdgeRows(ElementType_OutEdge) \cup EdgeRows(ElementType_InEdge)
                  \cup {EdgeAutoIncrementKey}
        /\ Cardinality(DOMAIN db[EDGE_TABLE_NAME]) = 3
        /\ db[EDGE_TABLE_NAME][EdgeAutoIncrementKey] = put_u64(0)

\* create_edge("u1", "u2", 3) is the only operation that has run
C5_Witness ==
    /\ early = <<[op |-> "create_edge"]>>
    /\ held[1] = Edge(<<117, 49>>, <<117, 50>>, 0, 3, <<>>)

\* the schema objects created as edge labels or property keys
IssuedOf(kind) == {i \in 1..Len(issued.schema) : issued.schema[i].kind = kind}

\* C7: an edge label or property key that is stored has the id it was
\* created with and the multiplicity or cardinality given at creation,
\* whatever updates ran; and a successful update leaves the given name and
\* changes nothing else of the stored object
C7_UpdateChangesOnlyTheName ==
    /\ \A i \in IssuedOf("EdgeLabel") :
          LET label == get_edge_label(db, issued.schema[i].id)
          IN  \/ label = None
              \/ /\ label # Panic
                 /\ label.id = issued.schema[i].id
                 /\ label.multiplicity = issued.schema[i].attr
    /\ \A i \in IssuedOf("PropertyKey") :
          LET key == get_property_key(db, issued.schema[i].id)
          IN  \/ key = None
              \/ /\ key # Panic
                 /\ key.id = issued.schema[i].id
                 /\ key.cardinality = issued.schema[i].attr
    /\ ret.op = "update_edge_label" /\ ret.ok
          => get_edge_label(db, ret.id) = [ret.old EXCEPT !.name = ret.name]
    /\ ret.op = "update_property_key" /\ ret.ok
          => get_property_key(db, ret.id) = [ret.old EXCEPT !.name = ret.name]

\* an edge label created Many2ManyMulti has just been renamed, next to a
\* stored property key
C7_Witness ==
    /\ ret.op = "update_edge_label" /\ ret.ok
    /\ ret.old.name # ret.name
    /\ get_edge_label(db, ret.id).multiplicity = 5
    /\ \E i \in IssuedOf("PropertyKey") :
          get_property_key(db, issued.schema[i].id) # None

-----------------------------------------------------------------------------
(* The EdgeHandler call by call: a handler that writes makes two engine    *)
(* calls on the EDGE tree, and the store can be seen between them (a crash  *)
(* or a reader on another handle, section 5 of the spec).  mid holds the   *)
(* handler that is between its two calls.                                  *)

\* the first of the engine calls of `todo` is made
StartCalls(op, slot, edge, store, todo) ==
    /\ db' = ApplyCall(store, EDGE_TABLE_NAME, Head(todo))
    /\ mid' = [op |-> op, slot |-> slot, edge |-> edge, before |-> store,
               done |-> <<Head(todo)>>, todo |-> Tail(todo)]

BeginCreateEdge(slot, src, dst, label) ==
    /\ mid = NoMid
    /\ EdgeIdFree
    /\ LET b == create_edge_begin(db, src, dst, label)
       IN  /\ StartCalls("create_edge", slot, b.edge, b.db, b.todo)
           /\ issued' = [issued EXCEPT !.edge = Append(@, b.edge.edge_id)]
    /\ UNCHANGED <<pureVars, calls, props, plog, held, ret, early>>

BeginRemoveEdge(slot) ==
    /\ mid = NoMid
    /\ held[slot] # None
    /\ StartCalls("remove_edge", slot, held[slot], db, EdgeRowRemoves(held[slot]))
    /\ UNCHANGED <<pureVars, calls, props, plog, held, ret, early, issued>>

\* edge.properties is changed in place before the rows are written
BeginAddProperty(slot, key_id, value) ==
    /\ mid = NoMid
    /\ held[slot] # None
    /\ EdgePropIdFree(held[slot])
    /\ LET b == Edge_add_property_begin(db, held[slot], key_id, value)
       IN  /\ StartCalls("add_property", slot, b.edge, b.db, b.todo)
           /\ held' = [held EXCEPT ![slot] = b.edge]
    /\ UNCHANGED <<pureVars, calls, props, plog, ret, early, issued>>

BeginRemoveProperty(slot, key_id, prop_id) ==
    /\ mid = NoMid
    /\ held[slot] # None
    /\ LET b == Edge_remove_property_begin(db, held[slot], key_id, prop_id)
       IN  /\ b.todo # <<>>
           /\ StartCalls("remove_property", slot, b.edge, b.db, b.todo)
           /\ held' = [held EXCEPT ![slot] = b.edge]
    /\ UNCHANGED <<pureVars, calls, props, plog, ret, early, issued>>

\* the rest of the engine calls, and the return to the caller
FinishEdgeCall ==
    /\ mid # NoMid
    /\ db' = ApplyCalls(db, EDGE_TABLE_NAME, mid.todo)
    /\ held' = IF mid.op = "create_edge" THEN [held EXCEPT ![mid.slot] = mid.edge] ELSE held
    /\ ret' = IF mid.op = "create_edge"
              THEN [op |-> "create_edge", slot |-> mid.slot, edge_id |-> mid.edge.edge_id]
              ELSE [op |-> mid.op, slot |-> mid.slot]
    /\ early' = Early(early, [op |-> mid.op])
    /\ mid' = NoMid
    /\ UNCHANGED <<pureVars, calls, props, plog, issued>>

EdgeStepNext ==
    \/ \E slot \in Slots, e \in EdgeEnds, label \in EdgeLabelIds :
          BeginCreateEdge(slot, e[1], e[2], label)
    \/ \E slot \in Slots : BeginRemoveEdge(slot)
    \/ \E slot \in Slots, key_id \in EdgePropKeyIds, value \in EdgeValues :
          BeginAddProperty(slot, key_id, value)
    \/ \E slot \in Slots, key_id \in EdgePropKeyIds, prop_id \in SUBSET EdgePropIds :
          BeginRemoveProperty(slot, key_id, prop_id)
    \/ FinishEdgeCall
    \/ \E slot \in Slots, e \in EdgeEnds, label \in EdgeLabelIds,
          edge_id \in EdgeIds, direction \in Directions :
          mid = NoMid /\ GetEdge(slot, e[1], e[2], label, edge_id, direction)

EdgeStepSpec == Init /\ [][EdgeStepNext]_vars

EdgeWrites == {"create_edge", "add_property", "remove_property"}

\* C6 as the spec has it: a handler that is between its two writes has
\* written the OUT row and has the IN row still to write
C6_OutRowIsWrittenFirst ==
    mid.op \in EdgeWrites =>
        LET out == Edge_serialize(mid.edge, "Out")
            in == Edge_serialize(mid.edge, "In")
        IN  /\ mid.done = <<InsertCall(out)>>
            /\ mid.todo = <<InsertCall(in)>>
            /\ get(db, EDGE_TABLE_NAME, out.key) = out.value
            /\ get(db, EDGE_TABLE_NAME, in.key) = get(mid.before, EDGE_TABLE_NAME, in.key)

\* C6: a handler (create_edge, add_property, remove_property) that is
\* between its two writes has written the IN row and has the OUT row still
\* to write: the IN row holds the new value and the OUT row is as it was
\* before the operation
C6_InRowIsWrittenFirst ==
    mid.op \in EdgeWrites =>
        LET out == Edge_serialize(mid.edge, "Out")
            in == Edge_serialize(mid.edge, "In")
        IN  /\ mid.done = <<InsertCall(in)>>
            /\ mid.todo = <<InsertCall(out)>>
            /\ get(db, EDGE_TABLE_NAME, in.key) = in.value
            /\ get(db, EDGE_TABLE_NAME, out.key) = get(mid.before, EDGE_TABLE_NAME, out.key)

\* add_property is between its two writes on a stored edge: the IN row has
\* the property and the OUT row has not
C6_Witness ==
    /\ mid.op = "add_property"
    /\ get(db, EDGE_TABLE_NAME, Edge_generate_key(mid.edge, "In")) = mid.edge.properties
    /\ get(db, EDGE_TABLE_NAME, Edge_generate_key(mid.edge, "Out")) = <<>>
    /\ mid.edge.properties # <<>>

-----------------------------------------------------------------------------
(* execution/executor.rs: QueryExecutor::execute_statement on the schema   *)
(* statements.  A statement is a record with the fields of its variant of  *)
(* parser::ast::Statement; an output cell is a byte string.                *)

\* QueryOutput {columns, items}, the items collected
QueryOutput(columns, items) == [ok |-> TRUE, columns |-> columns, items |-> items]

\* ExecutionError {msg}
ExecutionError(msg) == [ok |-> FALSE, msg |-> msg]

\* "id", "name", "status"
CreatedColumns ==
    << <<105, 100>>, <<110, 97, 109, 101>>, <<115, 116, 97, 116, 117, 115>> >>

\* vec![id.to_string(), name.to_owned(), "CREATED".to_string()]
CreatedRow(id, name) == << to_string(id), name, <<67, 82, 69, 65, 84, 69, 68>> >>

\* SchemaHandler::get_vertex_label_by_name: the first label of the scan
\* with the name, or None
get_vertex_label_by_name(store, name) ==
    LET labels == get_vertex_labels(store)
        Named(label) == label # Panic /\ label.name = name
        hits == SelectSeq(labels, Named)
    IN  IF \E i \in 1..Len(labels) : labels[i] = Panic THEN Panic
        ELSE IF hits = <<>> THEN None ELSE Head(hits)

\* SchemaHandler::get_edge_label_by_name
get_edge_label_by_name(store, name) ==
    LET labels == get_edge_labels(store)
        Named(label) == label # Panic /\ label.name = name
        hits == SelectSeq(labels, Named)
    IN  IF \E i \in 1..Len(labels) : labels[i] = Panic THEN Panic
        ELSE IF hits = <<>> THEN None ELSE Head(hits)

\* SchemaHandler::get_property_key_by_name
get_property_key_by_name(store, name) ==
    LET keys == get_property_keys(store)
        Named(key) == key # Panic /\ key.name = name
        hits == SelectSeq(keys, Named)
    IN  IF \E i \in 1..Len(keys) : keys[i] = Panic THEN Panic
        ELSE IF hits = <<>> THEN None ELSE Head(hits)

\* parser::ast::Value and parser::ast::Expr: a record that names its variant
Value_String(s) == [variant |-> "String", s |-> s]
Expr_Value(value) == [variant |-> "Value", value |-> value]
Expr_Identifier(s) == [variant |-> "Identifier", s |-> s]
\* Expr::Value(Value::String(s))
Expr_String(s) == Expr_Value(Value_String(s))

\* the string of Expr::Identifier(s) or Expr::Value(Value::String(s))
StringOf(expr) == IF expr.variant = "Identifier" THEN expr.s ELSE expr.value.s

\* "not impl"
NotImpl == <<110, 111, 116, 32, 105, 109, 112, 108>>

\* QueryExecutor::execute_expr: only a string literal has a value
execute_expr(expr) ==
    IF expr.variant = "Value" /\ expr.value.variant = "String"
    THEN [ok |-> TRUE, val |-> expr.value.s] ELSE [ok |-> FALSE, val |-> NotImpl]

\* QueryExecutor::parse_label_name: the label has to be an identifier
parse_label_name(label) ==
    IF label.variant = "Identifier"
    THEN [ok |-> TRUE, val |-> label.s] ELSE [ok |-> FALSE, val |-> NotImpl]

\* QueryExecutor::parse_vertex_id; the message is "not impl. only string
\* support"
parse_vertex_id(vertex_id) ==
    IF vertex_id.variant = "Value" /\ vertex_id.value.variant = "String"
    THEN [ok |-> TRUE, val |-> vertex_id.value.s]
    ELSE [ok |-> FALSE,
          val |-> <<110, 111, 116, 32, 105, 109, 112, 108, 46, 32, 111, 110, 108,
                    121, 32, 115, 116, 114, 105, 110, 103, 32, 115, 117, 112, 112,
                    111, 114, 116>>]

\* a value is computed once and handed on
With(value, then(_)) == then(value)

\* props.zip(values).for_each(add_property) of execute_insert_vertex: both
\* iterators are lazy, so the property key of a pair is looked up, and
\* unwrapped, when the pair is reached, then the value is evaluated and
\* unwrapped, then the property is added.  [db, ok]: ok = FALSE is the panic
\* of an unwrap, with the store as the pairs before it left it.
RECURSIVE add_zipped_properties(_, _, _, _)
add_zipped_properties(store, vertex, properties, values) ==
    IF properties = <<>> THEN [db |-> store, ok |-> TRUE]
    ELSE With(get_property_key_by_name(store, Head(properties)), LAMBDA prop :
         IF prop = None \/ prop = Panic THEN [db |-> store, ok |-> FALSE]
         ELSE IF values = <<>> THEN [db |-> store, ok |-> TRUE]
         ELSE With(execute_expr(Head(values)), LAMBDA value :
              IF ~value.ok THEN [db |-> store, ok |-> FALSE]
              ELSE With(Vertex_add_property(store, vertex, prop.id, value.val), LAMBDA r :
                   add_zipped_properties(r.db, r.vertex, Tail(properties),
                                         Tail(values)))))

\* QueryExecutor::execute_insert_vertex: [db, out]
execute_insert_vertex(store, label, properties, vertex_id, values) ==
    With(parse_label_name(label), LAMBDA label_name :
    IF ~label_name.ok THEN [db |-> store, out |-> ExecutionError(label_name.val)]
    ELSE
    With(parse_vertex_id(vertex_id), LAMBDA vid :
    IF ~vid.ok THEN [db |-> store, out |-> ExecutionError(vid.val)]
    ELSE
    With(get_vertex_label_by_name(store, label_name.val), LAMBDA found :
    IF found = Panic THEN [db |-> store, out |-> Panic]
    ELSE IF found = None
    THEN \* "No Vertex Label named {}"
         [db |-> store,
          out |-> ExecutionError(
                    <<78, 111, 32, 86, 101, 114, 116, 101, 120, 32, 76, 97, 98,
                      101, 108, 32, 110, 97, 109, 101, 100, 32>> \o label_name.val)]
    ELSE
    With(create_vertex(store, vid.val, found.id), LAMBDA created :
    With(add_zipped_properties(created.db, created.vertex, properties, values),
         LAMBDA added :
    IF ~added.ok THEN [db |-> added.db, out |-> Panic]
    ELSE \* columns "CREATED", one row "1"
         [db |-> added.db,
          out |-> QueryOutput(<< <<67, 82, 69, 65, 84, 69, 68>> >>,
                              << << <<49>> >> >>)])))))

\* [db, out]: the store after the statement and Ok(QueryOutput), Err(ExecutionError)
\* or Panic.  The argument of create_edge_label and create_property_key is
\* converted before the handler is called, so a panic there writes nothing.
execute_statement(store, statement) ==
    CASE statement.kind = "CreateVertexLabel" ->
            LET r == create_vertex_label(store, statement.name)
            IN  [db |-> r.db,
                 out |-> QueryOutput(CreatedColumns, <<CreatedRow(r.id, statement.name)>>)]
      [] statement.kind = "CreateEdgeLabel" ->
            LET m == EdgeMultiplicity_from_str(statement.multiplicity)
                r == create_edge_label(store, statement.name, m.val)
            IN  IF ~m.ok THEN [db |-> store, out |-> Panic]
                ELSE [db |-> r.db,
                      out |-> QueryOutput(CreatedColumns,
                                          <<CreatedRow(r.id, statement.name)>>)]
      [] statement.kind = "CreatePropertyKey" ->
            LET c == Cardinality_from_str(statement.cardinality)
                r == create_property_key(store, statement.name, c.val)
            IN  IF ~c.ok THEN [db |-> store, out |-> Panic]
                ELSE [db |-> r.db,
                      out |-> QueryOutput(CreatedColumns,
                                          <<CreatedRow(r.id, statement.name)>>)]
      [] statement.kind = "ShowVertexLabels" ->
            LET labels == get_vertex_labels(store)
            IN  [db |-> store,
                 out |-> IF \E i \in 1..Len(labels) : labels[i] = Panic THEN Panic
                         ELSE QueryOutput(
                                << <<105, 100>>, <<110, 97, 109, 101>> >>,
                                [i \in 1..Len(labels) |->
                                    << to_string(labels[i].id), labels[i].name >>])]
      [] statement.kind = "ShowEdgeLabels" ->
            LET labels == get_edge_labels(store)
            IN  [db |-> store,
                 out |-> IF \E i \in 1..Len(labels) : labels[i] = Panic THEN Panic
                         ELSE QueryOutput(
                                << <<105, 100>>, <<110, 97, 109, 101>>,
                                   <<109, 117, 108, 116, 105, 112, 108, 105, 99, 105, 116, 121>> >>,
                                [i \in 1..Len(labels) |->
                                    << to_string(labels[i].id), labels[i].name,
                                       EdgeMultiplicity_to_string(labels[i].multiplicity) >>])]
      [] statement.kind = "ShowPropertyKeys" ->
            LET keys == get_property_keys(store)
            IN  [db |-> store,
                 out |-> IF \E i \in 1..Len(keys) : keys[i] = Panic THEN Panic
                         ELSE QueryOutput(
                                << <<105, 100>>, <<110, 97, 109, 101>>,
                                   <<99, 97, 114, 100, 105, 110, 97, 108, 105, 116, 121>> >>,
                                [i \in 1..Len(keys) |->
                                    << to_string(keys[i].id), keys[i].name,
                                       Cardinality_to_string(keys[i].cardinality) >>])]
      [] statement.kind = "InsertVertex" ->
            execute_insert_vertex(store, statement.label, statement.properties,
                                  statement.vertex_id, statement.values)
      [] OTHER ->
            \* "not impl"
            [db |-> store, out |-> ExecutionError(NotImpl)]

\* ghost: what a schema create of the statement returned, read from the store
IssuedBy(statement, store, id) ==
    CASE statement.kind = "CreateVertexLabel" -> IssueSchema("VertexLabel", id, 0)
      [] statement.kind = "CreateEdgeLabel" ->
            IssueSchema("EdgeLabel", id, get_edge_label(store, id).multiplicity)
      [] statement.kind = "CreatePropertyKey" ->
            IssueSchema("PropertyKey", id, get_property_key(store, id).cardinality)
      [] OTHER -> issued

CreateKinds == {"CreateVertexLabel", "CreateEdgeLabel", "CreatePropertyKey"}

Execute(statement) ==
    /\ statement.kind \in CreateKinds => SchemaIdFree
    /\ LET Done(r) ==
               /\ db' = r.db
               /\ ret' = [op |-> statement.kind, out |-> r.out]
               /\ issued' = IF r.db = db THEN issued
                            ELSE IssuedBy(statement, r.db,
                                          NextCount(db, SCHEMA_TABLE_NAME,
                                                    AUTO_INCREMENT_SCHEMA_ID_KEY))
       IN  Done(execute_statement(db, statement))
    /\ early' = Early(early, [op |-> statement.kind, statement |-> statement])
    /\ UNCHANGED <<pureVars, notHandler, held>>

\* "one2one", "Many2ManyMulti" and a word that names no multiplicity, "nosuch"
MultiplicityWords ==
    { <<111, 110, 101, 50, 111, 110, 101>>,
      <<77, 97, 110, 121, 50, 77, 97, 110, 121, 77, 117, 108, 116, 105>>,
      <<110, 111, 115, 117, 99, 104>> }
\* "single", "SET" and "nosuch"
CardinalityWords ==
    { <<115, 105, 110, 103, 108, 101>>, <<83, 69, 84>>, <<110, 111, 115, 117, 99, 104>> }
\* variants of Statement that execute_statement leaves to its `_` arm
OtherKinds == {"CreateGraph", "DropGraph", "DropVertexLabel", "DropEdgeLabel",
               "DropPropertyKey"}

ExecNext ==
    \/ \E name \in Names : Execute([kind |-> "CreateVertexLabel", name |-> name])
    \/ \E name \in Names, m \in MultiplicityWords :
          Execute([kind |-> "CreateEdgeLabel", name |-> name, multiplicity |-> m])
    \/ \E name \in Names, c \in CardinalityWords :
          Execute([kind |-> "CreatePropertyKey", name |-> name, cardinality |-> c])
    \/ Execute([kind |-> "ShowVertexLabels"])
    \/ Execute([kind |-> "ShowEdgeLabels"])
    \/ Execute([kind |-> "ShowPropertyKeys"])
    \/ \E kind \in OtherKinds, name \in Names : Execute([kind |-> kind, name |-> name])

ExecSpec == Init /\ [][ExecNext]_vars

\* the first statement was CREATE VERTEX LABEL
FirstIsCreateVertexLabel ==
    /\ early # <<>>
    /\ early[1].op = "CreateVertexLabel"

\* and SHOW VERTEX LABEL followed it
ThenShowVertexLabels ==
    /\ FirstIsCreateVertexLabel
    /\ Len(early) = 2
    /\ early[2].op = "ShowVertexLabels"

\* C4 as the spec has it: on a fresh store the first CREATE VERTEX LABEL
\* returns the single row (1, name, "CREATED"), and a following SHOW VERTEX
\* LABEL yields exactly one row (1, name)
C4_FirstLabelIsOne ==
    /\ FirstIsCreateVertexLabel /\ Len(early) = 1
          => /\ ret.out.ok
             /\ ret.out.items = << << <<49>>, early[1].statement.name,
                                      <<67, 82, 69, 65, 84, 69, 68>> >> >>
    /\ ThenShowVertexLabels
          => /\ ret.out.ok
             /\ ret.out.items = << << <<49>>, early[1].statement.name >> >>

\* C4: on a fresh store the first CREATE VERTEX LABEL returns the single row
\* ("0", name, "CREATED"), and a following SHOW VERTEX LABEL yields exactly
\* one row ("0", name)
C4_FirstLabelIsZero ==
    /\ FirstIsCreateVertexLabel /\ Len(early) = 1
          => /\ ret.out.ok
             /\ ret.out.items = << << <<48>>, early[1].statement.name,
                                      <<67, 82, 69, 65, 84, 69, 68>> >> >>
    /\ ThenShowVertexLabels
          => /\ ret.out.ok
             /\ ret.out.items = << << <<48>>, early[1].statement.name >> >>

\* CREATE VERTEX LABEL b and then SHOW VERTEX LABEL have run, and the show
\* has returned one row
C4_Witness ==
    /\ ThenShowVertexLabels
    /\ early[1].statement.name = <<98>>
    /\ ret.op = "ShowVertexLabels"
    /\ Len(ret.out.items) = 1

-----------------------------------------------------------------------------
(* BaseSchemaModel::deserialize of the three schema kinds                  *)

\* VertexLabel::deserialize
VertexLabel_deserialize(key, value) ==
    LET t == get_u8(key)
        id == get_u64(t.rest)
    IN  IF t.ok /\ id.ok
        THEN VertexLabel_deserialize_value(from_be_bytes(id.val), value)
        ELSE Panic

\* EdgeLabel::deserialize
EdgeLabel_deserialize(key, value) ==
    LET t == get_u8(key)
        id == get_u64(t.rest)
    IN  IF t.ok /\ id.ok
        THEN EdgeLabel_deserialize_value(from_be_bytes(id.val), value)
        ELSE Panic

\* PropertyKey::deserialize
PropertyKey_deserialize(key, value) ==
    LET t == get_u8(key)
        id == get_u64(t.rest)
    IN  IF t.ok /\ id.ok
        THEN PropertyKey_deserialize_value(from_be_bytes(id.val), value)
        ELSE Panic

-----------------------------------------------------------------------------
(* The codec on its own: a value of one of the five kinds is drawn, then   *)
(* serialized and read back.  Names and ids are Rust Strings: any bytes,   *)
(* the terminator included, since no serialize checks what it writes.      *)

AnyStrings == {<<>>, <<97>>, <<97, STRING_TERM, 98>>}
CodecBlobs == {<<>>, Properties_add_property(<<>>, 12, 99, <<120>>)}
CodecLabelIds == {3}

CodecInputs ==
    [kind : {"VertexLabel"},
     x : [id : SchemaIds, name : AnyStrings]]
    \cup
    [kind : {"EdgeLabel"},
     x : [id : SchemaIds, name : AnyStrings, multiplicity : EdgeMultiplicityEnum]]
    \cup
    [kind : {"PropertyKey"},
     x : [id : SchemaIds, name : AnyStrings, cardinality : CardinalityEnum]]
    \cup
    [kind : {"Vertex"},
     x : [id : AnyStrings, label : CodecLabelIds, properties : CodecBlobs]]
    \cup
    [kind : {"OutEdge", "InEdge"},
     x : [src_vertex_id : AnyStrings, dst_vertex_id : AnyStrings,
          edge_id : 0..MaxEdgeId, label : CodecLabelIds,
          properties : CodecBlobs]]

CodecInit ==
    /\ db = new_tmp
    /\ calls = NoCalls
    /\ ret = NoRet
    /\ props = <<>>
    /\ plog = NoLog
    /\ held = NoHeld
    /\ mid = NoMid
    /\ early = <<>>
    /\ issued = NoneIssued
    /\ arg \in CodecInputs
    /\ res = NoRes

notPure == <<db, ret, calls, props, plog, held, mid, early, issued>>

\* the result of a call: what it returned, or that it panicked
Returned(value) == [called |-> TRUE, val |-> value]

RoundTripVertexLabel ==
    /\ res = NoRes /\ arg.kind = "VertexLabel"
    /\ LET ser == VertexLabel_serialize(arg.x)
       IN  res' = Returned(VertexLabel_deserialize(ser.key, ser.value))
    /\ UNCHANGED <<arg, notPure>>

RoundTripEdgeLabel ==
    /\ res = NoRes /\ arg.kind = "EdgeLabel"
    /\ LET ser == EdgeLabel_serialize(arg.x)
       IN  res' = Returned(EdgeLabel_deserialize(ser.key, ser.value))
    /\ UNCHANGED <<arg, notPure>>

RoundTripPropertyKey ==
    /\ res = NoRes /\ arg.kind = "PropertyKey"
    /\ LET ser == PropertyKey_serialize(arg.x)
       IN  res' = Returned(PropertyKey_deserialize(ser.key, ser.value))
    /\ UNCHANGED <<arg, notPure>>

RoundTripVertex ==
    /\ res = NoRes /\ arg.kind = "Vertex"
    /\ LET ser == Vertex_serialize(arg.x)
       IN  res' = Returned(Vertex_deserialize(ser.key, ser.value))
    /\ UNCHANGED <<arg, notPure>>

RoundTripEdge(direction) ==
    /\ res = NoRes /\ arg.kind = direction \o "Edge"
    /\ LET ser == Edge_serialize(arg.x, direction)
           de == Edge_deserialize(ser.key, ser.value)
       IN  res' = Returned(IF de.ok THEN de.edge ELSE Panic)
    /\ UNCHANGED <<arg, notPure>>

CodecNext ==
    \/ RoundTripVertexLabel
    \/ RoundTripEdgeLabel
    \/ RoundTripPropertyKey
    \/ RoundTripVertex
    \/ \E direction \in Directions : RoundTripEdge(direction)

CodecSpec == CodecInit /\ [][CodecNext]_vars

\* C11: for each of the five kinds (edges in both directions) and every
\* value x of the kind, deserialize(serialize(x)) is x again
C11_RoundTripIsIdentity ==
    res # NoRes => res = Returned(arg.x)

\* the strings of a value that do not hold the terminator
TerminatorFree(s) == \A i \in 1..Len(s) : s[i] # STRING_TERM

CodecStrings(a) ==
    CASE a.kind \in {"VertexLabel", "EdgeLabel", "PropertyKey"} -> {a.x.name}
      [] a.kind = "Vertex" -> {a.x.id}
      [] OTHER -> {a.x.src_vertex_id, a.x.dst_vertex_id}

\* what does hold: values whose strings are free of the terminator read
\* back as they were written
RoundTripOfTerminatorFree ==
    (res # NoRes /\ \A s \in CodecStrings(arg) : TerminatorFree(s))
        => res = Returned(arg.x)

-----------------------------------------------------------------------------
(* Vertices and edges on one store                                         *)

VertexIds == { <<117, 49>>, <<117, 50>> }
VertexLabelIds == {7}

CreateVertex(id, label) ==
    /\ db' = create_vertex(db, id, label).db
    /\ ret' = [op |-> "create_vertex", id |-> id]
    /\ early' = Early(early, [op |-> "create_vertex"])
    /\ UNCHANGED <<pureVars, notHandler, held, issued>>

\* ret keeps the EDGE tree as it was when the call was made and whether the
\* vertex had a row
RemoveVertex(id) ==
    /\ db' = remove_vertex(db, id)
    /\ ret' = [op |-> "remove_vertex", id |-> id,
               had |-> get_vertex(db, id) # None,
               edges |-> db[EDGE_TABLE_NAME]]
    /\ early' = Early(early, [op |-> "remove_vertex"])
    /\ UNCHANGED <<pureVars, notHandler, held, issued>>

GetVertex(id) ==
    /\ ret' = [op |-> "get_vertex", id |-> id, vertex |-> get_vertex(db, id)]
    /\ early' = Early(early, [op |-> "get_vertex"])
    /\ UNCHANGED <<pureVars, notHandler, db, held, issued>>

VertexNext ==
    \/ \E id \in VertexIds, label \in VertexLabelIds : CreateVertex(id, label)
    \/ \E id \in VertexIds : RemoveVertex(id)
    \/ \E id \in VertexIds : GetVertex(id)
    \/ EdgeLifeNextOver(EdgeEnds)
    \/ \E slot \in Slots, key_id \in EdgePropKeyIds, value \in EdgeValues :
          EdgeAddProperty(slot, key_id, value)

VertexSpec == Init /\ [][VertexNext]_vars

\* C12: remove_vertex(id) leaves the EDGE tree as it was: the OUT and IN
\* rows of the edges that start or end at the vertex are still there, with
\* the same values
C12_RemoveVertexKeepsTheEdges ==
    ret.op = "remove_vertex" => db[EDGE_TABLE_NAME] = ret.edges

\* a vertex that had a row was removed while one edge starts at it and
\* another ends at it, and all four rows are in the EDGE tree
C12_Witness ==
    /\ ret.op = "remove_vertex" /\ ret.had
    /\ get_vertex(db, ret.id) = None
    /\ \E other \in VertexIds \ {ret.id}, i, j \in EdgeIds, label \in EdgeLabelIds :
          /\ i # j
          /\ \A direction \in Directions :
                /\ get_edge(db, ret.id, other, label, i, direction) # None
                /\ get_edge(db, other, ret.id, label, j, direction) # None

-----------------------------------------------------------------------------
(* DROP statements through the executor                                    *)

SchemaKinds == {"VertexLabel", "EdgeLabel", "PropertyKey"}

\* the SHOW statement of a kind
ShowOf(kind) ==
    CASE kind = "VertexLabel" -> [kind |-> "ShowVertexLabels"]
      [] kind = "EdgeLabel" -> [kind |-> "ShowEdgeLabels"]
      [] kind = "PropertyKey" -> [kind |-> "ShowPropertyKeys"]

\* the names a SHOW of the kind lists on the store: the second cell of a row
ShownNames(store, kind) ==
    LET out == execute_statement(store, ShowOf(kind)).out
    IN  {out.items[i][2] : i \in 1..Len(out.items)}

\* an object of the kind was created by the first statement and the second
\* statement was the DROP of the kind with its name
CreatedThenDropped(kind) ==
    /\ Len(early) = 2
    /\ early[1].op = "Create" \o kind
    /\ Len(issued.schema) = 1
    /\ early[2].op = "Drop" \o kind
    /\ early[2].statement.name = early[1].statement.name

\* C13: DROP VERTEX LABEL, DROP EDGE LABEL and DROP PROPERTY KEY on the name
\* of an existing object succeed and remove it: a SHOW of the kind that
\* follows does not list the name
C13_DropRemovesTheObject ==
    \A kind \in SchemaKinds :
        CreatedThenDropped(kind)
            => /\ ret.out # Panic /\ ret.out.ok
               /\ early[2].statement.name \notin ShownNames(db, kind)

\* what the executor does: the DROP is answered with the error "not impl"
\* and the object is still listed
DropIsNotImplemented ==
    \A kind \in SchemaKinds :
        CreatedThenDropped(kind)
            => /\ ret.out = ExecutionError(NotImpl)
               /\ early[2].statement.name \in ShownNames(db, kind)

-----------------------------------------------------------------------------
(* INSERT VERTEX through the executor, on a store whose schema is made by  *)
(* CREATE statements                                                       *)

\* largest prop_id the property counter of a vertex hands out
MaxVertexPropId == 1

\* property key names "p" and "q"; only "p" is ever created
KnownPropertyNames == { <<112>> }
PropertyNameLists == { <<>>, << <<112>> >>, << <<113>> >>, << <<112>>, <<113>> >> }
\* labels: the identifiers a and b, and the string literal 'a'
InsertLabels == { Expr_Identifier(<<97>>), Expr_Identifier(<<98>>), Expr_String(<<97>>) }
\* vertex ids: the string literal 'u1' and the identifier u1
InsertVertexIds == { Expr_String(<<117, 49>>), Expr_Identifier(<<117, 49>>) }
InsertValueLists == { << Expr_String(<<120>>) >>,
                      << Expr_String(<<120>>), Expr_String(<<121>>) >> }

InsertVertexStatements ==
    [kind : {"InsertVertex"}, label : InsertLabels, properties : PropertyNameLists,
     vertex_id : InsertVertexIds, values : InsertValueLists]

\* the statement does not take the property counter of its vertex past the bound
VertexPropIdFree(statement) ==
    NextCount(db, VERTEX_TABLE_NAME, VertexPropAutoIncrementKey(StringOf(statement.vertex_id)))
        + Len(statement.properties) <= MaxVertexPropId + 1

\* execute_statement on an INSERT VERTEX; ret keeps the statement and the
\* store the statement was run on
ExecuteInsertVertex(statement) ==
    /\ VertexPropIdFree(statement)
    /\ LET Done(r) ==
               /\ db' = r.db
               /\ ret' = [op |-> "InsertVertex", out |-> r.out,
                          statement |-> statement, before |-> db]
       IN  Done(execute_statement(db, statement))
    /\ early' = Early(early, [op |-> "InsertVertex"])
    /\ UNCHANGED <<pureVars, notHandler, held, issued>>

InsertNext ==
    \/ Execute([kind |-> "CreateVertexLabel", name |-> <<97>>])
    \/ \E name \in KnownPropertyNames :
          Execute([kind |-> "CreatePropertyKey", name |-> name,
                   cardinality |-> <<115, 105, 110, 103, 108, 101>>])
    \/ \E statement \in InsertVertexStatements : ExecuteInsertVertex(statement)

InsertSpec == Init /\ [][InsertNext]_vars

UnknownLabel(store, statement) ==
    get_vertex_label_by_name(store, StringOf(statement.label)) = None

UnknownPropertyKey(store, statement) ==
    \E i \in 1..Len(statement.properties) :
        get_property_key_by_name(store, statement.properties[i]) = None

IsError(out) == out # Panic /\ ~out.ok

\* C14: an INSERT VERTEX that names an unknown vertex label or an unknown
\* property key is answered with an error and leaves the store as it was:
\* no vertex row is written, no property counter is advanced
C14_UnknownNameLeavesTheStore ==
    (/\ ret.op = "InsertVertex"
     /\ UnknownLabel(ret.before, ret.statement)
            \/ UnknownPropertyKey(ret.before, ret.statement))
        => IsError(ret.out) /\ db = ret.before

\* what does hold: an unknown vertex label is answered with an error and
\* nothing is written
UnknownLabelLeavesTheStore ==
    (ret.op = "InsertVertex" /\ UnknownLabel(ret.before, ret.statement))
        => IsError(ret.out) /\ db = ret.before

-----------------------------------------------------------------------------
(* parser/tokenizer.rs: the tokens, as Tokenizer::tokenize returns them     *)
(* and parse_sql filters them (no Whitespace token is left)                *)

Token_EOF == [t |-> "EOF"]
Token_Keyword(keyword) == [t |-> "Keyword", keyword |-> keyword]
Token_Identifier(s) == [t |-> "Identifier", s |-> s]
Token_Number(s) == [t |-> "Number", s |-> s]
Token_String(s) == [t |-> "String", s |-> s]
\* a token without a payload: Eq, DoubleEq, Neq, Lt, Gt, Lte, Gte, Plus,
\* Minus, Star, Slash, Percent, Comma, Dot, Colon, LeftParen, RightParen,
\* LeftBracket, RightBracket, LeftArrow, RightArrow, ...
Token(name) == [t |-> name]

-----------------------------------------------------------------------------
(* parser/ast.rs: the remaining variants of Value and Expr                 *)

Value_Number(s) == [variant |-> "Number", s |-> s]
Value_Boolean(b) == [variant |-> "Boolean", b |-> b]
Value_Null == [variant |-> "Null"]
Expr_CompoundIdentifier(idents) == [variant |-> "CompoundIdentifier", idents |-> idents]
Expr_Wildcard == [variant |-> "Wildcard"]
Expr_CompoundWildcard(idents) == [variant |-> "CompoundWildcard", idents |-> idents]
Expr_Function(func_name, arguments) ==
    [variant |-> "Function", func_name |-> func_name, arguments |-> arguments]
Expr_UnaryOp(op, expr) == [variant |-> "UnaryOp", op |-> op, expr |-> expr]
Expr_BinaryOp(op, left, right) ==
    [variant |-> "BinaryOp", op |-> op, left |-> left, right |-> right]
Expr_Nested(expr) == [variant |-> "Nested", expr |-> expr]
Expr_LabelExpr(expr) == [variant |-> "LabelExpr", expr |-> expr]
Expr_IdExpr(expr) == [variant |-> "IdExpr", expr |-> expr]

-----------------------------------------------------------------------------
(* parser/operator.rs and BindingPower of parser/parser.rs                 *)

BindingPower_Lowest == 0
BindingPower_AndOr == 20
BindingPower_Compare == 30
BindingPower_PlusMinus == 40
BindingPower_MultDiv == 50
BindingPower_Not == 60

\* UnaryOperator::from_token: the operator, or None
UnaryOperator_from_token(token) ==
    CASE token.t = "Plus" -> "Plus"
      [] token.t = "Minus" -> "Minus"
      [] token = Token_Keyword("NOT") -> "Not"
      [] OTHER -> "None"

\* UnaryOperator::get_binding_power
UnaryOperator_get_binding_power(op) ==
    IF op \in {"Plus", "Minus"} THEN BindingPower_PlusMinus ELSE BindingPower_Not

\* BinaryOperator::from_token: the operator, or None; no token gives Like
BinaryOperator_from_token(token) ==
    CASE token.t = "Plus" -> "Plus"
      [] token.t = "Minus" -> "Minus"
      [] token.t = "Star" -> "Multiply"
      [] token.t = "Slash" -> "Divide"
      [] token.t = "Percent" -> "Modulus"
      [] token.t = "Gt" -> "Gt"
      [] token.t = "Lt" -> "Lt"
      [] token.t = "Gte" -> "Gte"
      [] token.t = "Lte" -> "Lte"
      [] token.t \in {"Eq", "DoubleEq"} -> "Eq"
      [] token.t = "Neq" -> "NotEq"
      [] token = Token_Keyword("AND") -> "And"
      [] token = Token_Keyword("OR") -> "Or"
      [] OTHER -> "None"

\* a variant that puts the comparisons below AND and OR
BinaryOperator_get_binding_power_CompareLow(op) ==
    CASE op \in {"Plus", "Minus"} -> BindingPower_PlusMinus
      [] op \in {"Multiply", "Divide", "Modulus"} -> BindingPower_MultDiv
      [] op \in {"Gt", "Lt", "Gte", "Lte", "Eq", "NotEq"} -> BindingPower_AndOr
      [] op \in {"And", "Or"} -> BindingPower_Compare
      [] OTHER -> BindingPower_Lowest

\* BinaryOperator::get_binding_power
BinaryOperator_get_binding_power(op) ==
    CASE op \in {"Plus", "Minus"} -> BindingPower_PlusMinus
      [] op \in {"Multiply", "Divide", "Modulus"} -> BindingPower_MultDiv
      [] op \in {"Gt", "Lt", "Gte", "Lte", "Eq", "NotEq"} -> BindingPower_Compare
      [] op \in {"And", "Or"} -> BindingPower_AndOr
      [] OTHER -> BindingPower_Lowest

-----------------------------------------------------------------------------
(* parser/parser.rs: the cursor.  A function of Parser is an operator on    *)
(* the token vector and the index it is called at; it gives [st, index,     *)
(* val]: st is "ok" with the value and the index it leaves, "err" for       *)
(* Err(ParserError) with the message and the index it leaves (an error      *)
(* does not restore the index), or "panic" for an index out of the bounds   *)
(* of the token vector.                                                    *)

Ok(index, val) == [st |-> "ok", index |-> index, val |-> val]
\* Parser::parser_error: the message names the position
Err(index, msg) == [st |-> "err", index |-> index, val |-> [msg |-> msg, position |-> index]]
OutOfBounds(index) == [st |-> "panic", index |-> index, val |-> None]

\* Parser::peek_token: self.tokens[self.index]
peek_token(tokens, index) ==
    IF index < Len(tokens) THEN Ok(index, tokens[index + 1]) ELSE OutOfBounds(index)

\* Parser::consume_token
consume_token(tokens, index) ==
    IF index < Len(tokens) THEN Ok(index + 1, tokens[index + 1]) ELSE OutOfBounds(index)

\* Parser::prev_token: index is a usize, so 0 - 1 panics too
prev_token(tokens, index) ==
    IF index >= 1 /\ index - 1 < Len(tokens) THEN Ok(index - 1, tokens[index])
    ELSE OutOfBounds(index)

\* Parser::peek_next_n_token: the slice tokens[index..index + n]
peek_next_n_token(tokens, index, n) ==
    IF index + n <= Len(tokens) THEN Ok(index, SubSeq(tokens, index + 1, index + n))
    ELSE OutOfBounds(index)

\* Parser::consume_next_n_token
consume_next_n_token(tokens, index, n) ==
    IF index + n <= Len(tokens) THEN Ok(index + n, SubSeq(tokens, index + 1, index + n))
    ELSE OutOfBounds(index)

\* Parser::match_and_consume_tokens: val is the bool it returns
match_and_consume_tokens(tokens, index, wanted) ==
    LET peek_tokens == peek_next_n_token(tokens, index, Len(wanted))
    IN  IF peek_tokens.st = "panic" THEN peek_tokens
        ELSE IF peek_tokens.val # wanted THEN Ok(index, FALSE)
        ELSE Ok(consume_next_n_token(tokens, index, Len(wanted)).index, TRUE)

\* Parser::match_and_consume_keywords
match_and_consume_keywords(tokens, index, keywords) ==
    match_and_consume_tokens(tokens, index,
                             [i \in 1..Len(keywords) |-> Token_Keyword(keywords[i])])

\* Parser::match_and_consume_token
match_and_consume_token(tokens, index, token) ==
    LET peek == peek_token(tokens, index)
    IN  IF peek.st = "panic" THEN peek
        ELSE IF peek.val = token THEN Ok(index + 1, TRUE) ELSE Ok(index, FALSE)

\* Parser::check_match_and_consume_token
check_match_and_consume_token(tokens, index, token) ==
    LET m == match_and_consume_token(tokens, index, token)
    IN  IF m.st = "panic" THEN m
        ELSE IF m.val THEN Ok(m.index, TRUE) ELSE Err(index, "Expect")

-----------------------------------------------------------------------------
(* parser/parser.rs: expressions (top-down operator precedence)            *)

\* the `?` of Rust and the check after a cursor move: a result that is not
\* Ok ends the function, an Ok one is handed on
Try(r, then(_)) == IF r.st # "ok" THEN r ELSE then(r)

\* `if let Ok(..)` in a chain of alternatives: an Err is dropped and the next
\* alternative is tried
OrElse(r, else(_)) == IF r.st # "err" THEN r ELSE else(r)

RECURSIVE parse_expr_tdop(_, _, _)
RECURSIVE tdop_loop(_, _, _, _)
RECURSIVE parse_prefix(_, _)
RECURSIVE parse_unary_op(_, _)
RECURSIVE parse_infix(_, _, _, _)
RECURSIVE parse_identifiers_or_function(_, _)
RECURSIVE parse_separated(_, _, _, _)
RECURSIVE compound_identifier_loop(_, _, _, _)

\* Parser::parse_expr
parse_expr(tokens, index) == parse_expr_tdop(tokens, index, BindingPower_Lowest)

\* Parser::parse_literal_value: a token that is no literal is put back
parse_literal_value(tokens, index) ==
    Try(consume_token(tokens, index), LAMBDA c :
        IF c.val.t = "String" THEN Ok(c.index, Expr_Value(Value_String(c.val.s)))
        ELSE IF c.val.t = "Number" THEN Ok(c.index, Expr_Value(Value_Number(c.val.s)))
        ELSE IF c.val = Token_Keyword("TRUE") THEN Ok(c.index, Expr_Value(Value_Boolean(TRUE)))
        ELSE IF c.val = Token_Keyword("FALSE") THEN Ok(c.index, Expr_Value(Value_Boolean(FALSE)))
        ELSE IF c.val = Token_Keyword("NULL") THEN Ok(c.index, Expr_Value(Value_Null))
        ELSE Try(prev_token(tokens, c.index), LAMBDA p :
                 Err(p.index, "Expect literal value")))

\* the loop of parse_identifiers_or_function after `s .`: a.b.c, a.b.*,
\* a.label, a.id
compound_identifier_loop(tokens, index, s, ident_vec) ==
    Try(consume_token(tokens, index), LAMBDA c :
        IF c.val = Token_Keyword("LABEL")
        THEN Ok(c.index, Expr_LabelExpr(Expr_Identifier(s)))
        ELSE IF c.val = Token_Keyword("ID")
        THEN Ok(c.index, Expr_IdExpr(Expr_Identifier(s)))
        ELSE IF c.val.t = "Star" THEN Ok(c.index, Expr_CompoundWildcard(ident_vec))
        ELSE IF c.val.t = "Identifier"
        THEN Try(match_and_consume_token(tokens, c.index, Token("Dot")), LAMBDA m :
                 IF m.val
                 THEN compound_identifier_loop(tokens, m.index, s, Append(ident_vec, c.val.s))
                 ELSE Ok(m.index, Expr_CompoundIdentifier(Append(ident_vec, c.val.s))))
        ELSE Try(prev_token(tokens, c.index), LAMBDA p :
                 Err(p.index, "Expect Identifier or *")))

\* Parser::parse_identifiers_or_function
parse_identifiers_or_function(tokens, index) ==
    Try(consume_token(tokens, index), LAMBDA c :
        IF c.val.t # "Identifier"
        THEN Try(prev_token(tokens, c.index), LAMBDA p : Err(p.index, "Expect Identifier"))
        ELSE Try(consume_token(tokens, c.index), LAMBDA n :
                 IF n.val.t = "LeftParen"
                 THEN Try(parse_separated(tokens, n.index, Token("Comma"), "expr"),
                          LAMBDA arguments :
                      Try(check_match_and_consume_token(
                              tokens, arguments.index, Token("RightParen")),
                          LAMBDA close :
                      Ok(close.index, Expr_Function(c.val.s, arguments.val))))
                 ELSE IF n.val.t = "Dot"
                 THEN compound_identifier_loop(tokens, n.index, c.val.s, <<c.val.s>>)
                 ELSE Try(prev_token(tokens, n.index), LAMBDA p :
                          Ok(p.index, Expr_Identifier(c.val.s)))))

\* Parser::get_binding_power: of the binary operator at the cursor, Lowest
\* when the token is none
get_binding_power(tokens, index) ==
    Try(peek_token(tokens, index), LAMBDA peek :
        Ok(index, BinaryOperator_get_binding_power(BinaryOperator_from_token(peek.val))))

\* Parser::parse_infix
parse_infix(tokens, index, expr, lbp) ==
    Try(peek_token(tokens, index), LAMBDA peek :
        IF BinaryOperator_from_token(peek.val) = "None" THEN Err(index, "not impl")
        ELSE Try(consume_token(tokens, index), LAMBDA c :
             Try(parse_expr_tdop(tokens, c.index, lbp), LAMBDA right :
             Ok(right.index,
                Expr_BinaryOp(BinaryOperator_from_token(peek.val), expr, right.val)))))

\* the loop of parse_expr_tdop: infix operators are taken while they bind
\* tighter than rbp
tdop_loop(tokens, index, rbp, expr) ==
    Try(get_binding_power(tokens, index), LAMBDA lbp :
        IF rbp >= lbp.val THEN Ok(index, expr)
        ELSE Try(parse_infix(tokens, index, expr, lbp.val), LAMBDA infix :
                 tdop_loop(tokens, infix.index, rbp, infix.val)))

\* Parser::parse_expr_tdop
parse_expr_tdop(tokens, index, rbp) ==
    Try(parse_prefix(tokens, index), LAMBDA prefix :
        tdop_loop(tokens, prefix.index, rbp, prefix.val))

\* Parser::parse_unary_op
parse_unary_op(tokens, index) ==
    Try(peek_token(tokens, index), LAMBDA peek :
        IF UnaryOperator_from_token(peek.val) = "None" THEN Err(index, "Not a unary op")
        ELSE Try(consume_token(tokens, index), LAMBDA c :
             Try(parse_expr_tdop(tokens, c.index,
                     UnaryOperator_get_binding_power(UnaryOperator_from_token(peek.val))),
                 LAMBDA expr :
             Ok(expr.index, Expr_UnaryOp(UnaryOperator_from_token(peek.val), expr.val)))))

\* Parser::parse_prefix: the alternatives are tried in turn with `if let
\* Ok(..)`; an alternative that fails is dropped with its error, and the next
\* one starts at the index the failed one left
parse_prefix(tokens, index) ==
    Try(match_and_consume_token(tokens, index, Token("Star")), LAMBDA star :
        IF star.val THEN Ok(star.index, Expr_Wildcard)
        ELSE OrElse(parse_literal_value(tokens, index), LAMBDA literal :
             OrElse(parse_identifiers_or_function(tokens, literal.index), LAMBDA ident :
             OrElse(parse_unary_op(tokens, ident.index), LAMBDA unary :
             Try(match_and_consume_token(tokens, unary.index, Token("LeftParen")),
                 LAMBDA paren :
             IF ~paren.val THEN Err(unary.index, "syntax error")
             ELSE Try(parse_expr(tokens, paren.index), LAMBDA nested :
                  Try(check_match_and_consume_token(
                          tokens, nested.index, Token("RightParen")),
                      LAMBDA close :
                  Ok(close.index, Expr_Nested(nested.val)))))))))

\* the closures handed to parse_separated: an expression, an identifier
\* (parse_properties, parse_create_edge_label, parse_create_property_key) or
\* a string literal (parse_values)
parse_item(tokens, index, what) ==
    IF what = "expr" THEN parse_expr(tokens, index)
    ELSE Try(peek_token(tokens, index), LAMBDA peek :
             IF what = "identifier"
             THEN IF peek.val.t = "Identifier" THEN Ok(index + 1, peek.val.s)
                  ELSE Err(index, "Expect Identifiers")
             ELSE IF peek.val.t = "String"
                  THEN Ok(index + 1, Expr_Value(Value_String(peek.val.s)))
                  ELSE Err(index, "not impl"))

\* Parser::parse_separated
parse_separated(tokens, index, separator, what) ==
    Try(parse_item(tokens, index, what), LAMBDA value :
    Try(match_and_consume_token(tokens, value.index, separator), LAMBDA m :
        IF ~m.val THEN Ok(m.index, <<value.val>>)
        ELSE Try(parse_separated(tokens, m.index, separator, what), LAMBDA rest :
                 Ok(rest.index, <<value.val>> \o rest.val))))

-----------------------------------------------------------------------------
(* parser/parser.rs: graph patterns and statements.  A Statement is a      *)
(* record with the fields of its variant, as the executor takes it.        *)

\* Option::Some
Some(value) == [some |-> value]

GraphTriplet(src, edge, dst) == [src |-> src, edge |-> edge, dst |-> dst]
GraphPattern(triplets) == [triplets |-> triplets]

\* Parser::parse_vertex_expr, with "(" and ")", and Parser::parse_edge_expr,
\* with "[" and "]": the identifier between the two
parse_enclosed_identifier(tokens, index, open, close) ==
    Try(check_match_and_consume_token(tokens, index, Token(open)), LAMBDA o :
    Try(consume_token(tokens, o.index), LAMBDA c :
        IF c.val.t # "Identifier"
        THEN Try(prev_token(tokens, c.index), LAMBDA p : Err(p.index, "Expect Identifier"))
        ELSE Try(check_match_and_consume_token(tokens, c.index, Token(close)), LAMBDA e :
                 Ok(e.index, Expr_Identifier(c.val.s)))))

parse_vertex_expr(tokens, index) ==
    parse_enclosed_identifier(tokens, index, "LeftParen", "RightParen")

parse_edge_expr(tokens, index) ==
    parse_enclosed_identifier(tokens, index, "LeftBracket", "RightBracket")

\* self.check_match_and_consume_token(..); as parse_graph_pattern calls it for
\* the arrow after an edge: the Result is dropped, so the token is consumed
\* when it is there and nothing happens when it is not
unchecked_match(tokens, index, token) ==
    OrElse(check_match_and_consume_token(tokens, index, token), LAMBDA m :
           Ok(index, FALSE))

\* the loop of Parser::parse_graph_pattern
RECURSIVE graph_pattern_loop(_, _, _, _)
graph_pattern_loop(tokens, index, curr, triplets) ==
    Try(consume_token(tokens, index), LAMBDA c :
        IF c.val.t \in {"Minus", "LeftArrow"}
        THEN Try(parse_edge_expr(tokens, c.index), LAMBDA edge :
             Try(unchecked_match(tokens, edge.index,
                     IF c.val.t = "Minus" THEN Token("RightArrow") ELSE Token("Minus")),
                 LAMBDA arrow :
             Try(parse_vertex_expr(tokens, arrow.index), LAMBDA other :
             graph_pattern_loop(tokens, other.index, other.val,
                 Append(triplets,
                        IF c.val.t = "Minus"
                        THEN GraphTriplet(curr, edge.val, other.val)
                        ELSE GraphTriplet(other.val, edge.val, curr))))))
        ELSE IF c.val.t = "Comma"
        THEN Try(parse_vertex_expr(tokens, c.index), LAMBDA next :
                 graph_pattern_loop(tokens, next.index, next.val, triplets))
        ELSE Try(prev_token(tokens, c.index), LAMBDA p :
                 Ok(p.index, GraphPattern(triplets))))

\* Parser::parse_graph_pattern
parse_graph_pattern(tokens, index) ==
    Try(parse_vertex_expr(tokens, index), LAMBDA curr :
        graph_pattern_loop(tokens, curr.index, curr.val, <<>>))

\* Parser::parse_select
parse_select(tokens, index) ==
    Try(parse_separated(tokens, index, Token("Comma"), "expr"), LAMBDA exprs :
    Try(match_and_consume_token(tokens, exprs.index, Token_Keyword("FROM")),
        LAMBDA has_from :
    Try(IF has_from.val THEN parse_graph_pattern(tokens, has_from.index)
        ELSE Ok(has_from.index, GraphPattern(<<>>)),
        LAMBDA from :
    Try(match_and_consume_token(tokens, from.index, Token_Keyword("WHERE")),
        LAMBDA has_where :
    IF ~has_where.val
    THEN Ok(has_where.index,
            [kind |-> "Select", items |-> exprs.val, from |-> from.val,
             condition |-> None])
    ELSE Try(parse_expr(tokens, has_where.index), LAMBDA condition :
             Ok(condition.index,
                [kind |-> "Select", items |-> exprs.val, from |-> from.val,
                 condition |-> Some(condition.val)]))))))

\* Parser::parse_properties (what = "identifier") and Parser::parse_values
\* (what = "string"): a list in parentheses
parse_list(tokens, index, what) ==
    Try(check_match_and_consume_token(tokens, index, Token("LeftParen")), LAMBDA o :
    Try(parse_separated(tokens, o.index, Token("Comma"), what), LAMBDA items :
    Try(check_match_and_consume_token(tokens, items.index, Token("RightParen")),
        LAMBDA c :
    Ok(c.index, items.val))))

parse_properties(tokens, index) == parse_list(tokens, index, "identifier")

parse_values(tokens, index) == parse_list(tokens, index, "string")

\* Parser::parse_vertex_id: an expression in parentheses
Parser_parse_vertex_id(tokens, index) ==
    Try(check_match_and_consume_token(tokens, index, Token("LeftParen")), LAMBDA o :
    Try(parse_expr(tokens, o.index), LAMBDA vertex_id :
    Try(check_match_and_consume_token(tokens, vertex_id.index, Token("RightParen")),
        LAMBDA c :
    Ok(c.index, vertex_id.val))))

\* Parser::parse_edge_vertices_id: ( src -> dst )
parse_edge_vertices_id(tokens, index) ==
    Try(check_match_and_consume_token(tokens, index, Token("LeftParen")), LAMBDA o :
    Try(parse_expr(tokens, o.index), LAMBDA src_id :
    Try(check_match_and_consume_token(tokens, src_id.index, Token("RightArrow")),
        LAMBDA arrow :
    Try(parse_expr(tokens, arrow.index), LAMBDA dst_id :
    Try(check_match_and_consume_token(tokens, dst_id.index, Token("RightParen")),
        LAMBDA c :
    Ok(c.index, <<src_id.val, dst_id.val>>))))))

\* Parser::parse_insert_vertex and Parser::parse_insert_edge, which differ in
\* how the ids are read
parse_insert_element(tokens, index, element) ==
    Try(parse_expr(tokens, index), LAMBDA label :
    Try(check_match_and_consume_token(tokens, label.index, Token_Keyword("PROPERTIES")),
        LAMBDA kw1 :
    Try(parse_properties(tokens, kw1.index), LAMBDA properties :
    Try(check_match_and_consume_token(tokens, properties.index, Token_Keyword("VALUES")),
        LAMBDA kw2 :
    Try(IF element = "VERTEX" THEN Parser_parse_vertex_id(tokens, kw2.index)
        ELSE parse_edge_vertices_id(tokens, kw2.index),
        LAMBDA ids :
    Try(check_match_and_consume_token(tokens, ids.index, Token("Colon")), LAMBDA colon :
    Try(parse_values(tokens, colon.index), LAMBDA values :
    IF element = "VERTEX"
    THEN Ok(values.index,
            [kind |-> "InsertVertex", label |-> label.val,
             properties |-> properties.val, vertex_id |-> ids.val,
             values |-> values.val])
    ELSE Ok(values.index,
            [kind |-> "InsertEdge", label |-> label.val,
             properties |-> properties.val, src_vertex_id |-> ids.val[1],
             dst_vertex_id |-> ids.val[2], values |-> values.val]))))))))

\* Parser::parse_insert
parse_insert(tokens, index) ==
    Try(match_and_consume_token(tokens, index, Token_Keyword("VERTEX")), LAMBDA vertex :
        IF vertex.val THEN parse_insert_element(tokens, vertex.index, "VERTEX")
        ELSE Try(match_and_consume_token(tokens, index, Token_Keyword("EDGE")),
                 LAMBDA edge :
                 IF edge.val THEN parse_insert_element(tokens, edge.index, "EDGE")
                 ELSE Err(index, "Expect Keyword VERTEX or EDGE")))

\* Parser::parse_create_vertex_label and the three Parser::parse_drop_*: the
\* statement of the kind with the identifier at the cursor as its name
parse_named(tokens, index, kind) ==
    Try(peek_token(tokens, index), LAMBDA next_token :
        IF next_token.val.t = "Identifier"
        THEN Ok(index + 1, [kind |-> kind, name |-> next_token.val.s])
        ELSE Err(index, "Expect Identifier"))

\* Parser::parse_create_edge_label and Parser::parse_create_property_key:
\* ( name , word )
parse_create_pair(tokens, index, kind) ==
    Try(check_match_and_consume_token(tokens, index, Token("LeftParen")), LAMBDA o :
    Try(parse_separated(tokens, o.index, Token("Comma"), "identifier"), LAMBDA exprs :
        IF Len(exprs.val) # 2
        THEN Err(exprs.index, "unexpected length of create edge clause")
        ELSE Try(check_match_and_consume_token(tokens, exprs.index, Token("RightParen")),
                 LAMBDA c :
                 IF kind = "CreateEdgeLabel"
                 THEN Ok(c.index, [kind |-> kind, name |-> exprs.val[1],
                                   multiplicity |-> exprs.val[2]])
                 ELSE Ok(c.index, [kind |-> kind, name |-> exprs.val[1],
                                   cardinality |-> exprs.val[2]]))))

\* the three match_and_consume_keywords of SHOW, Parser::parse_create and
\* Parser::parse_drop: "VertexLabel", "EdgeLabel", "PropertyKey" or "None",
\* with the index after the two keywords
parse_schema_kind(tokens, index) ==
    Try(match_and_consume_keywords(tokens, index, <<"VERTEX", "LABEL">>), LAMBDA v :
        IF v.val THEN Ok(v.index, "VertexLabel")
        ELSE Try(match_and_consume_keywords(tokens, index, <<"EDGE", "LABEL">>),
                 LAMBDA e :
                 IF e.val THEN Ok(e.index, "EdgeLabel")
                 ELSE Try(match_and_consume_keywords(tokens, index, <<"PROPERTY", "KEY">>),
                          LAMBDA k :
                          IF k.val THEN Ok(k.index, "PropertyKey")
                          ELSE Ok(index, "None"))))

\* Parser::parse_create
parse_create(tokens, index) ==
    Try(parse_schema_kind(tokens, index), LAMBDA kind :
        IF kind.val = "VertexLabel"
        THEN parse_named(tokens, kind.index, "CreateVertexLabel")
        ELSE IF kind.val = "EdgeLabel"
        THEN parse_create_pair(tokens, kind.index, "CreateEdgeLabel")
        ELSE IF kind.val = "PropertyKey"
        THEN parse_create_pair(tokens, kind.index, "CreatePropertyKey")
        ELSE Err(index, "Unexpected token"))

\* Parser::parse_drop
parse_drop(tokens, index) ==
    Try(parse_schema_kind(tokens, index), LAMBDA kind :
        IF kind.val = "None" THEN Err(index, "Unexpected token")
        ELSE parse_named(tokens, kind.index, "Drop" \o kind.val))

\* Parser::parse_statement
parse_statement(tokens, index) ==
    Try(consume_token(tokens, index), LAMBDA c :
        IF c.val.t # "Keyword" THEN Err(c.index, "Expect Keyword")
        ELSE IF c.val.keyword = "SHOW"
        THEN Try(parse_schema_kind(tokens, c.index), LAMBDA kind :
                 IF kind.val = "None" THEN Err(c.index, "unknown query")
                 ELSE Ok(kind.index, [kind |-> "Show" \o kind.val \o "s"]))
        ELSE IF c.val.keyword = "SELECT" THEN parse_select(tokens, c.index)
        ELSE IF c.val.keyword = "INSERT" THEN parse_insert(tokens, c.index)
        ELSE IF c.val.keyword = "CREATE" THEN parse_create(tokens, c.index)
        ELSE IF c.val.keyword = "DROP" THEN parse_drop(tokens, c.index)
        ELSE Err(c.index, "Unexpected keyword"))

\* the loop of Parser::parse_sql over the filtered tokens: statements are
\* parsed until the cursor is at EOF
RECURSIVE parse_statements(_, _, _)
parse_statements(tokens, index, stmts) ==
    Try(peek_token(tokens, index), LAMBDA peek :
        IF peek.val = Token_EOF THEN Ok(index, stmts)
        ELSE Try(parse_statement(tokens, index), LAMBDA stmt :
                 parse_statements(tokens, stmt.index, Append(stmts, stmt.val))))

\* Parser::parse_sql after the tokenizer: Ok(statements), Err(ParserError)
\* or the panic of an index out of bounds
parse_sql(tokens) == parse_statements(tokens, 0, <<>>)

-----------------------------------------------------------------------------
(* The parser on its own: a token vector that ends in EOF is drawn and     *)
(* parse_sql is run on it                                                  *)

\* longest token vector, EOF not counted, of the vectors drawn whole
MaxTokens == 3

\* the identifiers a, b, c, e
Ident(n) == Token_Identifier(<<n>>)

\* the tokens of the binary operators
BinaryTokens ==
    {Token(t) : t \in {"Plus", "Minus", "Star", "Slash", "Percent", "Gt", "Lt",
                       "Gte", "Lte", "Eq", "DoubleEq", "Neq"}}
        \cup {Token_Keyword("AND"), Token_Keyword("OR")}

\* SELECT a p b q c
LadderInputs ==
    {[kind |-> "ladder", p |-> p, q |-> q,
      tokens |-> <<Token_Keyword("SELECT"), Ident(97), p, Ident(98), q, Ident(99),
                   Token_EOF>>] : p \in BinaryTokens, q \in BinaryTokens}

\* what may stand between an edge and the vertex after it
AfterEdge == {<<>>, <<Token("RightArrow")>>, <<Token("Minus")>>,
              <<Token("LeftArrow")>>, <<Token("Comma")>>}

\* SELECT * FROM (a) - [e] ... (b)  and  SELECT * FROM (a) <- [e] ... (b)
PatternInputs ==
    {[kind |-> "pattern", first |-> first, after |-> after,
      tokens |-> <<Token_Keyword("SELECT"), Token("Star"), Token_Keyword("FROM"),
                   Token("LeftParen"), Ident(97), Token("RightParen"),
                   Token(first),
                   Token("LeftBracket"), Ident(101), Token("RightBracket")>>
                 \o after
                 \o <<Token("LeftParen"), Ident(98), Token("RightParen"), Token_EOF>>] :
        first \in {"Minus", "LeftArrow"}, after \in AfterEdge}

ShortAlphabet ==
    {Token_Keyword(k) : k \in {"SHOW", "CREATE", "DROP", "SELECT", "INSERT",
                               "VERTEX", "LABEL"}}
        \cup {Ident(97), Token("LeftParen"), Token("Minus")}

\* every vector of at most MaxTokens tokens of the alphabet, then EOF
ShortInputs ==
    {[kind |-> "short", tokens |-> Append(ts, Token_EOF)] :
        ts \in UNION {[1..n -> ShortAlphabet] : n \in 0..MaxTokens}}

\* SELECT NOT a q b
NotInputs ==
    {[kind |-> "not", q |-> q,
      tokens |-> <<Token_Keyword("SELECT"), Token_Keyword("NOT"), Ident(97), q,
                   Ident(98), Token_EOF>>] : q \in BinaryTokens}

ParseInputs == LadderInputs \cup NotInputs \cup PatternInputs \cup ShortInputs

ParseInit ==
    /\ db = new_tmp
    /\ calls = NoCalls
    /\ ret = NoRet
    /\ props = <<>>
    /\ plog = NoLog
    /\ held = NoHeld
    /\ mid = NoMid
    /\ early = <<>>
    /\ issued = NoneIssued
    /\ arg \in ParseInputs
    /\ res = NoRes

Parse ==
    /\ res = NoRes
    /\ res' = Returned(parse_sql(arg.tokens))
    /\ UNCHANGED <<arg, notPure>>

ParseNext == Parse

ParseSpec == ParseInit /\ [][ParseNext]_vars

\* the rung of a binary operator token on the ladder AndOr < Compare <
\* PlusMinus < MultDiv
Rung(token) ==
    CASE token \in {Token_Keyword("AND"), Token_Keyword("OR")} -> 1
      [] token.t \in {"Eq", "DoubleEq", "Neq", "Lt", "Lte", "Gt", "Gte"} -> 2
      [] token.t \in {"Plus", "Minus"} -> 3
      [] token.t \in {"Star", "Slash", "Percent"} -> 4

\* the tree of `a first b second c`: the operator on the lower rung is the
\* root; on the same rung the first operator is applied first
Grouped(first, second) ==
    LET a == Expr_Identifier(<<97>>)
        b == Expr_Identifier(<<98>>)
        c == Expr_Identifier(<<99>>)
        op1 == BinaryOperator_from_token(first)
        op2 == BinaryOperator_from_token(second)
    IN  IF Rung(first) < Rung(second)
        THEN Expr_BinaryOp(op1, a, Expr_BinaryOp(op2, b, c))
        ELSE Expr_BinaryOp(op2, Expr_BinaryOp(op1, a, b), c)

\* the tree of `NOT a q b`: NOT is on the highest rung, so it takes a alone
NotGrouped(q) ==
    Expr_BinaryOp(BinaryOperator_from_token(q),
                  Expr_UnaryOp("Not", Expr_Identifier(<<97>>)),
                  Expr_Identifier(<<98>>))

\* C15: the ladder is Lowest < AndOr < Compare < PlusMinus < MultDiv < Not.
\* With p on a lower rung than q, `x p y q z` parses as p(x, q(y, z)) and
\* `x q y p z` as p(q(x, y), z); operators of one rung, AND next to OR
\* included, group left to right
C15_LowerPowerIsTheRoot ==
    /\ BindingPower_Lowest < BindingPower_AndOr
    /\ BindingPower_AndOr < BindingPower_Compare
    /\ BindingPower_Compare < BindingPower_PlusMinus
    /\ BindingPower_PlusMinus < BindingPower_MultDiv
    /\ BindingPower_MultDiv < BindingPower_Not
    /\ (arg.kind = "ladder" /\ res # NoRes)
          => /\ res.val.st = "ok"
             /\ Len(res.val.val) = 1
             /\ res.val.val[1].kind = "Select"
             /\ res.val.val[1].items = <<Grouped(arg.p, arg.q)>>
    /\ (arg.kind = "not" /\ res # NoRes)
          => /\ res.val.st = "ok"
             /\ res.val.val[1].items = <<NotGrouped(arg.q)>>

\* `a AND b + c` was parsed, and AND is the root with + under it
C15_Witness ==
    /\ arg.kind = "ladder" /\ res # NoRes
    /\ arg.p = Token_Keyword("AND") /\ arg.q = Token("Plus")
    /\ res.val.val[1].items[1].op = "And"
    /\ res.val.val[1].items[1].right.op = "Plus"

\* the arrow that has to follow the edge
Malformed(a) ==
    \/ a.first = "Minus" /\ a.after # <<Token("RightArrow")>>
    \/ a.first = "LeftArrow" /\ a.after # <<Token("Minus")>>

\* C16: a graph pattern in which `- [e]` is not followed by `->`, or
\* `<- [e]` not by `-`, is rejected with a ParseError and gives no statement
C16_MalformedPatternIsRejected ==
    (arg.kind = "pattern" /\ Malformed(arg) /\ res # NoRes)
        => res.val.st = "err"

\* what the parser does: only the missing arrow goes unnoticed
OnlyTheMissingArrowIsAccepted ==
    (arg.kind = "pattern" /\ res # NoRes)
        => (res.val.st = "ok" <=> (~Malformed(arg) \/ arg.after = <<>>))

\* C17: on every token vector that ends in EOF parse_sql returns statements
\* or a ParseError: the cursor is never moved or read out of the vector, and
\* SHOW, CREATE or DROP alone give a ParseError
C17_CursorStaysInside ==
    res # NoRes => res.val.st \in {"ok", "err"}

\* what the parser does: it reads out of the vector exactly when SHOW, CREATE
\* or DROP is the last token before EOF and a statement starts there
OutOfBoundsOnlyAfterALoneKeyword ==
    (res # NoRes /\ res.val.st = "panic")
        => LET n == Len(arg.tokens)
           IN  /\ n >= 2
               /\ arg.tokens[n - 1] \in {Token_Keyword("SHOW"), Token_Keyword("CREATE"),
                                         Token_Keyword("DROP")}

-----------------------------------------------------------------------------
(* execution/scope.rs: what a SELECT names.  scope.rs and planner.rs bind  *)
(* the payload of Expr::LabelExpr and Expr::IdExpr as the element's name,  *)
(* a String, and so do the trees below.                                    *)

\* the HashMap of Scope::vertices and Scope::edges, by element name
EmptyMap == [n \in {} |-> None]
contains_key(map, key) == key \in DOMAIN map
HashMap_insert(map, key, value) ==
    [n \in DOMAIN map \cup {key} |-> IF n = key THEN value ELSE map[n]]

\* enum Comparator
Comparator_Eq(value) == [comparator |-> "Eq", value |-> value]
Comparator_Gte(value) == [comparator |-> "Gte", value |-> value]
Comparator_Lte(value) == [comparator |-> "Lte", value |-> value]

\* VertexPattern::new
VertexPattern_new(name) ==
    [name |-> name, label |-> None, id |-> <<>>, predicates |-> <<>>,
     projections |-> <<>>]

\* the EdgePattern literal of Scope::parse_graph_pattern
EdgePattern(name, src_name, dst_name) ==
    [name |-> name, label |-> None, src_name |-> src_name, dst_name |-> dst_name,
     predicates |-> <<>>, projections |-> <<>>, num |-> <<0, 0>>]

\* Scope::new
Scope_new ==
    [vertices |-> EmptyMap, edges |-> EmptyMap, conditions |-> <<>>,
     select_items |-> <<>>, paths |-> <<>>]

IsPanic(x) == "panic" \in DOMAIN x

\* Scope::parse_graph_pattern: every triplet names two vertices and an edge
RECURSIVE Scope_parse_graph_pattern(_, _, _)
Scope_parse_graph_pattern(scope, triplets, i) ==
    IF i > Len(triplets) THEN scope
    ELSE LET triplet == triplets[i]
             src_name == triplet.src.s
             dst_name == triplet.dst.s
             edge_name == triplet.edge.s
             with_src == HashMap_insert(scope.vertices, src_name, VertexPattern_new(src_name))
             with_dst == HashMap_insert(with_src, dst_name, VertexPattern_new(dst_name))
         IN  IF \/ triplet.src.variant # "Identifier"
                \/ triplet.dst.variant # "Identifier"
                \/ triplet.edge.variant # "Identifier"
             THEN Panic
             ELSE Scope_parse_graph_pattern(
                      [scope EXCEPT
                          !.vertices = with_dst,
                          !.edges = HashMap_insert(scope.edges, edge_name,
                                        EdgePattern(edge_name, src_name, dst_name)),
                          !.paths = Append(scope.paths, <<src_name, edge_name, dst_name>>)],
                      triplets, i + 1)

Scope_is_graph_element(scope, element_name) ==
    contains_key(scope.vertices, element_name) \/ contains_key(scope.edges, element_name)

\* Scope::collect_elements_in_graph: the elements an expression names, one
\* entry for each mention; [ok |-> FALSE] is a panic
RECURSIVE collect_elements_in_graph(_, _, _)
RECURSIVE collect_elements_of_arguments(_, _, _, _)
collect_elements_in_graph(scope, expr, elements) ==
    LET named(element_name) ==
            IF Scope_is_graph_element(scope, element_name)
            THEN [ok |-> TRUE, val |-> Append(elements, element_name)]
            ELSE [ok |-> FALSE, val |-> elements]
        left == collect_elements_in_graph(scope, expr.left, elements)
    IN  CASE expr.variant \in {"Identifier", "Value", "Wildcard"} ->
                [ok |-> TRUE, val |-> elements]
          [] expr.variant = "CompoundIdentifier" ->
                IF Len(expr.idents) # 2 THEN [ok |-> FALSE, val |-> elements]
                ELSE named(expr.idents[1])
          [] expr.variant = "CompoundWildcard" ->
                IF Len(expr.idents) # 1 THEN [ok |-> FALSE, val |-> elements]
                ELSE named(expr.idents[1])
          [] expr.variant = "Function" ->
                collect_elements_of_arguments(scope, expr.arguments, 1, elements)
          [] expr.variant \in {"UnaryOp", "Nested"} ->
                collect_elements_in_graph(scope, expr.expr, elements)
          [] expr.variant = "BinaryOp" ->
                IF ~left.ok THEN left
                ELSE collect_elements_in_graph(scope, expr.right, left.val)
          [] expr.variant \in {"LabelExpr", "IdExpr"} -> named(expr.expr)

\* the loop over the arguments of a function call
collect_elements_of_arguments(scope, arguments, i, elements) ==
    IF i > Len(arguments) THEN [ok |-> TRUE, val |-> elements]
    ELSE LET one == collect_elements_in_graph(scope, arguments[i], elements)
         IN  IF ~one.ok THEN one
             ELSE collect_elements_of_arguments(scope, arguments, i + 1, one.val)

\* Scope::push_conditions_into_scope: a condition that names one element
\* once goes to that element, any other to the top-level conditions
push_conditions_into_scope(scope, condition) ==
    LET elements_in_func == collect_elements_in_graph(scope, condition, <<>>)
        element_name == elements_in_func.val[1]
    IN  IF ~elements_in_func.ok THEN Panic
        ELSE IF Len(elements_in_func.val) = 1
        THEN IF contains_key(scope.vertices, element_name)
             THEN [scope EXCEPT !.vertices[element_name].predicates = Append(@, condition)]
             ELSE IF contains_key(scope.edges, element_name)
             THEN [scope EXCEPT !.edges[element_name].predicates = Append(@, condition)]
             ELSE Panic
        ELSE [scope EXCEPT !.conditions = Append(@, condition)]

IsStringValue(expr) == expr.variant = "Value" /\ expr.value.variant = "String"

\* Scope::parse_condition, the arm of a comparison: a label or an id against
\* a string literal is taken out of the condition, anything else is pushed
parse_comparison(scope, condition) ==
    LET op == condition.op
        left == condition.left
        right == condition.right
        expr_type ==
            CASE left.variant = "LabelExpr" /\ IsStringValue(right) -> "label"
              [] IsStringValue(left) /\ right.variant = "LabelExpr" -> "label"
              [] left.variant = "IdExpr" /\ IsStringValue(right) -> "id"
              [] IsStringValue(left) /\ right.variant = "IdExpr" -> "id"
              [] OTHER -> "none"
        element_name == IF IsStringValue(right) THEN left.expr ELSE right.expr
        value == IF IsStringValue(right) THEN right.value.s ELSE left.value.s
        comp ==
            CASE op = "Eq" -> Some(Comparator_Eq(Expr_String(value)))
              [] op \in {"Gt", "Gte"} -> Some(Comparator_Gte(Expr_String(value)))
              [] op \in {"Lt", "Lte"} -> Some(Comparator_Lte(Expr_String(value)))
              [] OTHER -> None
        neq == IF op \in {"Gt", "Lt"} THEN <<Expr_String(value)>> ELSE <<>>
        pushed == [scope EXCEPT !.vertices[element_name].id = Append(@, comp.some)]
    IN  CASE expr_type = "label" ->
                IF op = "Eq"
                THEN IF contains_key(scope.vertices, element_name)
                     THEN [scope EXCEPT !.vertices[element_name].label = Some(value)]
                     ELSE IF contains_key(scope.edges, element_name)
                     THEN [scope EXCEPT !.edges[element_name].label = Some(value)]
                     ELSE Panic
                ELSE push_conditions_into_scope(scope, condition)
          [] expr_type = "id" ->
                IF ~contains_key(scope.vertices, element_name) THEN Panic
                ELSE IF comp = None THEN Panic
                ELSE IF neq # <<>>
                THEN push_conditions_into_scope(pushed,
                         Expr_UnaryOp("Not",
                             Expr_Function(<<105, 110>>,
                                 <<Expr_IdExpr(element_name)>> \o neq)))
                ELSE pushed
          [] OTHER -> push_conditions_into_scope(scope, condition)

\* Scope::parse_condition: AND, OR and parentheses are descended
RECURSIVE Scope_parse_condition(_, _)
Scope_parse_condition(scope, condition) ==
    IF IsPanic(scope) THEN scope
    ELSE CASE condition.variant \in {"Function", "UnaryOp"} ->
                  push_conditions_into_scope(scope, condition)
           [] condition.variant = "BinaryOp" ->
                  IF condition.op \in {"And", "Or"}
                  THEN Scope_parse_condition(
                           Scope_parse_condition(scope, condition.left), condition.right)
                  ELSE parse_comparison(scope, condition)
           [] condition.variant = "Nested" ->
                  Scope_parse_condition(scope, condition.expr)
           [] OTHER -> Panic

\* Scope::parse_select_query, with Scope::parse_select_items
parse_select_query(scope, items, graph_pattern, condition) ==
    LET pattern == Scope_parse_graph_pattern(scope, graph_pattern.triplets, 1)
        cond == IF condition = None THEN pattern
                ELSE Scope_parse_condition(pattern, condition.some)
    IN  IF IsPanic(cond) THEN cond
        ELSE [cond EXCEPT !.select_items = @ \o items]

-----------------------------------------------------------------------------
(* execution/operator.rs and execution/planner.rs                          *)

\* enum Operator
VertexFullScan(element_name) ==
    [operator |-> "VertexFullScan", element_name |-> element_name]
VertexIdRangeScan(element_name, range) ==
    [operator |-> "VertexIdRangeScan", element_name |-> element_name, range |-> range]
VertexLookup(element_name, vertex_id) ==
    [operator |-> "VertexLookup", element_name |-> element_name, vertex_id |-> vertex_id]
OutEdgeSeqScan(element_name, edge_label, src) ==
    [operator |-> "OutEdgeSeqScan", element_name |-> element_name,
     edge_label |-> edge_label, src |-> src]
PredicateFilter(source, predicates) ==
    [operator |-> "PredicateFilter", source |-> source, predicates |-> predicates]
Projection(source, items) ==
    [operator |-> "Projection", source |-> source, items |-> items]
SimplePathJoin(operators) == [operator |-> "SimplePathJoin", operators |-> operators]

\* the values of the comparators of one kind, in the order of vertex.id
RECURSIVE ComparatorValues(_, _)
ComparatorValues(id, comparator) ==
    IF id = <<>> THEN <<>>
    ELSE (IF Head(id).comparator = comparator THEN <<Head(id).value>> ELSE <<>>)
         \o ComparatorValues(Tail(id), comparator)

\* a variant that leaves a side without comparators unbounded
build_vertex_pattern_Unbounded(id) ==
    <<IF ComparatorValues(id, "Gte") = <<>> THEN None
      ELSE Some(Expr_Function(<<109, 105, 110>>, ComparatorValues(id, "Gte"))),
      IF ComparatorValues(id, "Lte") = <<>> THEN None
      ELSE Some(Expr_Function(<<109, 97, 120>>, ComparatorValues(id, "Lte")))>>

\* Planner::build_vertex_pattern, the range of several id comparators: min
\* of every Gte value and max of every Lte value, whichever list is empty
build_vertex_pattern_range(id) ==
    <<Some(Expr_Function(<<109, 105, 110>>, ComparatorValues(id, "Gte"))),
      Some(Expr_Function(<<109, 97, 120>>, ComparatorValues(id, "Lte")))>>

\* a variant that scans from the value on for a lone Lte as well
build_vertex_pattern_LoneLower(comp) == <<Some(comp.value), None>>

\* Planner::build_vertex_pattern, the range of a single Gte or Lte
build_vertex_pattern_half(comp) ==
    IF comp.comparator = "Gte" THEN <<Some(comp.value), None>>
    ELSE <<None, Some(comp.value)>>

\* Planner::build_vertex_pattern: the scan the id comparators allow, under
\* the label and the predicates of the vertex, under its projections
build_vertex_pattern(vertex) ==
    LET scan ==
            IF vertex.id = <<>> THEN VertexFullScan(vertex.name)
            ELSE IF Len(vertex.id) = 1
            THEN IF vertex.id[1].comparator = "Eq"
                 THEN VertexLookup(vertex.name, vertex.id[1].value)
                 ELSE VertexIdRangeScan(vertex.name, build_vertex_pattern_half(vertex.id[1]))
            ELSE VertexIdRangeScan(vertex.name, build_vertex_pattern_range(vertex.id))
        predicates ==
            (IF vertex.label # None
             THEN <<Expr_BinaryOp("Eq", Expr_LabelExpr(vertex.name),
                                  Expr_String(vertex.label.some))>>
             ELSE <<>>) \o vertex.predicates
        filtered == IF predicates # <<>> THEN PredicateFilter(scan, predicates) ELSE scan
    IN  IF Len(vertex.id) > 1 /\ \E i \in DOMAIN vertex.id : vertex.id[i].comparator = "Eq"
        THEN Panic
        ELSE IF vertex.projections # <<>> THEN Projection(filtered, vertex.projections)
        ELSE filtered

\* Planner::build_edge_pattern
build_edge_pattern(edge) ==
    LET edge_label == IF edge.label # None THEN Some(Expr_String(edge.label.some)) ELSE None
        scan == OutEdgeSeqScan(edge.name, edge_label, Some(Expr_Identifier(edge.src_name)))
        filtered == IF edge.predicates # <<>> THEN PredicateFilter(scan, edge.predicates)
                    ELSE scan
    IN  IF edge.projections # <<>> THEN Projection(filtered, edge.projections)
        ELSE filtered

\* a variant that takes every element for a new one
is_new_Always(elements, name) == TRUE

\* !elements.contains(&pattern.name): the walk meets the element for the
\* first time
is_new(elements, name) == name \notin elements

\* Planner::build_select_query, the loop over the paths: every element is
\* lowered the first time the walk meets it
RECURSIVE path_loop(_, _, _, _)
path_loop(scope, i, elements, path_ops) ==
    IF i > Len(scope.paths) THEN path_ops
    ELSE LET src_pattern == scope.vertices[scope.paths[i][1]]
             edge_pattern == scope.edges[scope.paths[i][2]]
             found == scope.vertices[scope.paths[i][3]]
             e_dst == Expr_CompoundIdentifier(<<edge_pattern.name, <<100, 115, 116>>>>)
             dst_pattern ==
                 IF found.id = <<>>
                 THEN [found EXCEPT !.id = <<Comparator_Eq(e_dst)>>]
                 ELSE [found EXCEPT !.predicates =
                          Append(@, Expr_BinaryOp("Eq", Expr_IdExpr(found.name), e_dst))]
             src_new == is_new(elements, src_pattern.name)
             elements1 == elements \cup {src_pattern.name}
             edge_new == is_new(elements1, edge_pattern.name)
             elements2 == elements1 \cup {edge_pattern.name}
             dst_new == is_new(elements2, dst_pattern.name)
             src_op == build_vertex_pattern(src_pattern)
             dst_op == build_vertex_pattern(dst_pattern)
         IN  IF (src_new /\ IsPanic(src_op)) \/ (dst_new /\ IsPanic(dst_op)) THEN <<Panic>>
             ELSE path_loop(scope, i + 1, elements2 \cup {dst_pattern.name},
                      path_ops
                      \o (IF src_new THEN <<src_op>> ELSE <<>>)
                      \o (IF edge_new THEN <<build_edge_pattern(edge_pattern)>> ELSE <<>>)
                      \o (IF dst_new THEN <<dst_op>> ELSE <<>>))

\* a variant that leaves the WHERE to the operators of the elements
where_filter_Never(op, condition) == op

\* Planner::build_select_query, `if let Some(expr) = condition`: with a
\* WHERE the path goes under a filter on the whole expression
where_filter(op, condition) ==
    IF condition # None THEN PredicateFilter(op, <<condition.some>>) ELSE op

\* Planner::build_select_query
build_select_query(items, graph_pattern, condition) ==
    LET scope == parse_select_query(Scope_new, items, graph_pattern, condition)
        path_ops == path_loop(scope, 1, {}, <<>>)
        op == IF Len(path_ops) = 1 THEN path_ops[1] ELSE SimplePathJoin(path_ops)
        filtered == where_filter(op, condition)
    IN  IF IsPanic(scope) THEN Panic
        ELSE IF path_ops = <<>> \/ Panic \in {path_ops[i] : i \in DOMAIN path_ops} THEN Panic
        ELSE Projection(filtered, items)

-----------------------------------------------------------------------------
(* The planner as a function: a SELECT over a pattern of the vertices a    *)
(* and b and the edge e, with a WHERE of up to MaxLeaves comparisons.      *)

MaxLeaves == 3

ElemA == <<97>>
ElemB == <<98>>
ElemE == <<101>>
K1 == <<107, 49>>
K2 == <<107, 50>>

\* (a), (a) - [e] -> (b) and (b) - [e] -> (a), as Parser::parse_graph_pattern
\* reads them
PatternTokens ==
    [single |-> <<Token("LeftParen"), Token_Identifier(ElemA), Token("RightParen"),
                  Token_EOF>>,
     out |-> <<Token("LeftParen"), Token_Identifier(ElemA), Token("RightParen"),
               Token("Minus"), Token("LeftBracket"), Token_Identifier(ElemE),
               Token("RightBracket"), Token("RightArrow"),
               Token("LeftParen"), Token_Identifier(ElemB), Token("RightParen"),
               Token_EOF>>,
     in |-> <<Token("LeftParen"), Token_Identifier(ElemB), Token("RightParen"),
              Token("Minus"), Token("LeftBracket"), Token_Identifier(ElemE),
              Token("RightBracket"), Token("RightArrow"),
              Token("LeftParen"), Token_Identifier(ElemA), Token("RightParen"),
              Token_EOF>>]

PatternOf(pattern) == parse_graph_pattern(PatternTokens[pattern], 0).val

\* a.id OP 'k'
IdLeaf(element_name, op, k) ==
    Expr_BinaryOp(op, Expr_IdExpr(element_name), Expr_String(k))

IdOps == {"Eq", "Gt", "Lt", "Gte", "Lte"}
IdLeavesOfA == {IdLeaf(ElemA, op, k) : op \in IdOps, k \in {K1, K2}}
OtherLeaves ==
    {Expr_BinaryOp("Eq", Expr_LabelExpr(ElemA), Expr_String(<<112>>)),
     IdLeaf(ElemB, "Eq", K1)}
Leaves == IdLeavesOfA \cup OtherLeaves

LeafLists == UNION {[1..n -> Leaves] : n \in 0..MaxLeaves}

\* l1 OP l2 OP l3 as the parser groups it: to the left
RECURSIVE Joined(_, _)
Joined(leaves, connective) ==
    IF Len(leaves) = 1 THEN leaves[1]
    ELSE Expr_BinaryOp(connective,
             Joined(SubSeq(leaves, 1, Len(leaves) - 1), connective),
             leaves[Len(leaves)])

PlanInputs ==
    {[kind |-> "select", pattern |-> pattern, leaves |-> leaves,
      connective |-> connective,
      items |-> <<Expr_Wildcard>>,
      graph_pattern |-> PatternOf(pattern),
      condition |-> IF leaves = <<>> THEN None ELSE Some(Joined(leaves, connective))] :
        pattern \in {"single", "out", "in"}, leaves \in LeafLists,
        connective \in {"And", "Or"}}

PlanInit ==
    /\ db = new_tmp
    /\ calls = NoCalls
    /\ ret = NoRet
    /\ props = <<>>
    /\ plog = <<>>
    /\ held = {}
    /\ mid = NoMid
    /\ early = FALSE
    /\ issued = 0
    /\ arg \in PlanInputs
    /\ res = NoRes

Plan ==
    /\ res = NoRes
    /\ res' = Returned(build_select_query(arg.items, arg.graph_pattern, arg.condition))
    /\ UNCHANGED <<arg, notPure>>

PlanNext == Plan

PlanSpec == PlanInit /\ [][PlanNext]_vars

\* every operator of a plan
RECURSIVE Nodes(_)
Nodes(op) ==
    {op} \cup
    (IF op.operator \in {"PredicateFilter", "Projection"} THEN Nodes(op.source)
     ELSE IF op.operator = "SimplePathJoin"
     THEN UNION {Nodes(op.operators[i]) : i \in DOMAIN op.operators}
     ELSE {})

Scans == {"VertexFullScan", "VertexIdRangeScan", "VertexLookup"}

\* the comparisons of the WHERE that are about the id of a
IdLeavesIn(leaves) == SelectSeq(leaves, LAMBDA leaf : leaf \in IdLeavesOfA)

Planned == res # NoRes /\ ~IsPanic(res.val)

\* a path pattern whose WHERE constrains the id of b at most once: the other
\* vertex of the path is not what stops the planner
OnAPath ==
    /\ arg.pattern \in {"out", "in"}
    /\ Len(SelectSeq(arg.leaves, LAMBDA leaf : leaf = IdLeaf(ElemB, "Eq", K1))) <= 1

\* C18: for the pattern (a) with WHERE a.id = 'k' the plan is a Projection
\* over VertexLookup{a, 'k'}, with no VertexIdRangeScan and no VertexFullScan
\* in it.
C18_SingleVertexEqIsALookup ==
    \A k \in {K1, K2} :
        (res # NoRes /\ arg.pattern = "single" /\ arg.leaves = <<IdLeaf(ElemA, "Eq", k)>>)
        => /\ ~IsPanic(res.val)
           /\ res.val.operator = "Projection"
           /\ VertexLookup(ElemA, Expr_String(k)) \in Nodes(res.val)
           /\ \A n \in Nodes(res.val) :
                  n.operator \notin {"VertexIdRangeScan", "VertexFullScan"}

\* what the planner does with a pattern of one vertex: the pattern has no
\* triplet, so the scope has no vertex and the planner no path, and the
\* call panics with or without a WHERE
SingleVertexPatternPanics ==
    (res # NoRes /\ arg.pattern = "single") => res.val = Panic

\* on a path, a vertex whose only id constraint is a.id = 'k' is a lookup
EqOnAPathIsALookup ==
    \A k \in {K1, K2} :
        (/\ res # NoRes /\ OnAPath
         /\ IdLeavesIn(arg.leaves) = <<IdLeaf(ElemA, "Eq", k)>>)
        => /\ ~IsPanic(res.val)
           /\ res.val.operator = "Projection"
           /\ VertexLookup(ElemA, Expr_String(k)) \in Nodes(res.val)
           /\ \A n \in Nodes(res.val) :
                  (n.operator \in Scans /\ n.element_name = ElemA)
                  => n.operator = "VertexLookup"

\* NOT in(a.id, 'k')
NotIn(element_name, k) ==
    Expr_UnaryOp("Not",
        Expr_Function(<<105, 110>>, <<Expr_IdExpr(element_name), Expr_String(k)>>))

InSeq(x, seq) == \E i \in DOMAIN seq : seq[i] = x

\* the plan scans a over the range, under a filter that holds the residual
RangeUnderResidual(plan, range, k) ==
    \E n \in Nodes(plan) :
        /\ n.operator = "PredicateFilter"
        /\ n.source = VertexIdRangeScan(ElemA, range)
        /\ InSeq(NotIn(ElemA, k), n.predicates)

\* C19: a pattern vertex a whose only id constraint is a.id > 'k' is lowered
\* to VertexIdRangeScan{a, (Some('k'), None)} inside a PredicateFilter that
\* holds the residual NOT in(a.id, 'k'); a.id < 'k' gives (None, Some('k'))
\* with the same residual.
C19_StrictBoundKeepsTheResidual ==
    \A k \in {K1, K2} :
        /\ (/\ res # NoRes /\ OnAPath
            /\ IdLeavesIn(arg.leaves) = <<IdLeaf(ElemA, "Gt", k)>>)
           => /\ ~IsPanic(res.val)
              /\ RangeUnderResidual(res.val, <<Some(Expr_String(k)), None>>, k)
        /\ (/\ res # NoRes /\ OnAPath
            /\ IdLeavesIn(arg.leaves) = <<IdLeaf(ElemA, "Lt", k)>>)
           => /\ ~IsPanic(res.val)
              /\ RangeUnderResidual(res.val, <<None, Some(Expr_String(k))>>, k)

\* a.id < 'k' next to a label and to a constraint on b, planned with a as
\* the destination of the edge
C19_Witness ==
    /\ Planned /\ arg.pattern = "in" /\ Len(arg.leaves) = 3
    /\ IdLeavesIn(arg.leaves) = <<IdLeaf(ElemA, "Lt", K2)>>
    /\ RangeUnderResidual(res.val, <<None, Some(Expr_String(K2))>>, K2)

\* the literals a list of comparisons bounds the id with, from below
\* (> and >=) or from above (< and <=), in the order of the WHERE
BoundValues(leaves, ops) ==
    LET chosen == SelectSeq(leaves, LAMBDA leaf : leaf.op \in ops)
    IN  [i \in DOMAIN chosen |-> chosen[i].right]

Min(arguments) == Expr_Function(<<109, 105, 110>>, arguments)
Max(arguments) == Expr_Function(<<109, 97, 120>>, arguments)

\* the scans of a in the plan
ScansOfA(plan) == {n \in Nodes(plan) : n.operator \in Scans /\ n.element_name = ElemA}

SeveralBounds ==
    /\ OnAPath
    /\ Len(IdLeavesIn(arg.leaves)) >= 2
    /\ \A i \in DOMAIN IdLeavesIn(arg.leaves) : IdLeavesIn(arg.leaves)[i].op # "Eq"

\* C20: with several id comparators on a vertex, none of them an equality,
\* the plan has one VertexIdRangeScan for it, from the call min over every
\* Gte value to the call max over every Lte value; for a.id > 'k1' AND
\* a.id < 'k2' the range is (Some(min('k1')), Some(max('k2'))).
C20_SeveralBoundsAreOneRange ==
    /\ (res # NoRes /\ SeveralBounds)
       => /\ ~IsPanic(res.val)
          /\ ScansOfA(res.val) =
                {VertexIdRangeScan(ElemA,
                    <<Some(Min(BoundValues(IdLeavesIn(arg.leaves), {"Gt", "Gte"}))),
                      Some(Max(BoundValues(IdLeavesIn(arg.leaves), {"Lt", "Lte"})))>>)}
    /\ (/\ res # NoRes /\ arg.pattern \in {"out", "in"}
        /\ arg.leaves = <<IdLeaf(ElemA, "Gt", K1), IdLeaf(ElemA, "Lt", K2)>>
        /\ arg.connective = "And")
       => ScansOfA(res.val) =
             {VertexIdRangeScan(ElemA,
                 <<Some(Min(<<Expr_String(K1)>>)), Some(Max(<<Expr_String(K2)>>))>>)}

\* three bounds, two of them from below
C20_Witness ==
    /\ Planned /\ SeveralBounds
    /\ Len(BoundValues(IdLeavesIn(arg.leaves), {"Gt", "Gte"})) = 2
    /\ Len(BoundValues(IdLeavesIn(arg.leaves), {"Lt", "Lte"})) = 1

-----------------------------------------------------------------------------
(* The planner on paths: a SELECT over a pattern of up to MaxTriplets      *)
(* triplets of the vertices a, b, c and the edges e, f, where a name may   *)
(* come back in a later triplet, with one comparison as its WHERE or none. *)

MaxTriplets == 2

ElemC == <<99>>
ElemF == <<102>>
PathVertices == {ElemA, ElemB, ElemC}
PathEdges == {ElemE, ElemF}

\* the triplet of (src) - [edge] -> (dst)
PathTriplets ==
    {GraphTriplet(Expr_Identifier(src), Expr_Identifier(edge), Expr_Identifier(dst)) :
        src \in PathVertices, edge \in PathEdges, dst \in PathVertices}

PathPatterns == UNION {[1..n -> PathTriplets] : n \in 1..MaxTriplets}

PathLeafLists ==
    {<<>>, <<IdLeaf(ElemA, "Eq", K1)>>, <<IdLeaf(ElemB, "Gt", K1)>>,
     <<Expr_BinaryOp("Eq", Expr_LabelExpr(ElemA), Expr_String(<<112>>))>>}

\* the vertices of a pattern
VerticesOf(triplets) ==
    {triplets[i].src.s : i \in DOMAIN triplets} \cup {triplets[i].dst.s : i \in DOMAIN triplets}

\* a SELECT * over the pattern with the comparisons as its WHERE
PathInput(triplets, leaves) ==
    [kind |-> "select", pattern |-> "path", leaves |-> leaves, connective |-> "And",
     items |-> <<Expr_Wildcard>>,
     graph_pattern |-> GraphPattern(triplets),
     condition |-> IF leaves = <<>> THEN None ELSE Some(Joined(leaves, "And"))]

PathInit ==
    /\ db = new_tmp
    /\ calls = NoCalls
    /\ ret = NoRet
    /\ props = <<>>
    /\ plog = <<>>
    /\ held = {}
    /\ mid = NoMid
    /\ early = FALSE
    /\ issued = 0
    \* the WHERE is about vertices of the pattern
    /\ \E triplets \in PathPatterns, leaves \in PathLeafLists :
          /\ \A i \in DOMAIN leaves : leaves[i].left.expr \in VerticesOf(triplets)
          /\ arg = PathInput(triplets, leaves)
    /\ res = NoRes

PathNext == Plan

PathSpec == PathInit /\ [][PathNext]_vars

\* the walk over the triplets: src, edge, dst of each, with what it is
RECURSIVE Walk(_)
Walk(triplets) ==
    IF triplets = <<>> THEN <<>>
    ELSE << <<Head(triplets).src.s, "vertex">>, <<Head(triplets).edge.s, "edge">>,
            <<Head(triplets).dst.s, "vertex">> >> \o Walk(Tail(triplets))

\* the names of a walk, each where it is met first
RECURSIVE FirstOccurrences(_, _)
FirstOccurrences(walk, seen) ==
    IF walk = <<>> THEN <<>>
    ELSE IF Head(walk)[1] \in seen THEN FirstOccurrences(Tail(walk), seen)
    ELSE <<Head(walk)>> \o FirstOccurrences(Tail(walk), seen \cup {Head(walk)[1]})

\* the operator under the Projection and the filter on the WHERE
PathOf(plan) == IF arg.condition # None THEN plan.source.source ELSE plan.source

\* the scan of a lowered element, under its filter and its projection
RECURSIVE ScanOf(_)
ScanOf(op) == IF op.operator \in {"PredicateFilter", "Projection"} THEN ScanOf(op.source) ELSE op

\* the name and the kind of the element an operator of the path lowers
Lowered(op) ==
    <<ScanOf(op).element_name,
      IF ScanOf(op).operator = "OutEdgeSeqScan" THEN "edge" ELSE "vertex">>

\* C21: on a pattern of at least one triplet every vertex and edge name is
\* lowered once, and the SimplePathJoin has one operator for each distinct
\* name of the walk src, edge, dst, in the order the walk first meets them.
C21_OneOperatorForEachName ==
    (res # NoRes /\ arg.pattern = "path")
    => /\ ~IsPanic(res.val)
       /\ PathOf(res.val).operator = "SimplePathJoin"
       /\ LET operators == PathOf(res.val).operators
          IN  [i \in DOMAIN operators |-> Lowered(operators[i])]
              = FirstOccurrences(Walk(arg.graph_pattern.triplets), {})

\* two triplets over three names: a cycle with one edge name
C21_Witness ==
    /\ Planned /\ arg.pattern = "path"
    /\ Len(arg.graph_pattern.triplets) = 2
    /\ Len(PathOf(res.val).operators) = 3
    /\ Len(FirstOccurrences(Walk(arg.graph_pattern.triplets), {})) = 3

\* edge.dst
EdgeDst(edge) == Expr_CompoundIdentifier(<<edge, <<100, 115, 116>>>>)

\* the operator of the vertex is a lookup of edge.dst, or filters on
\* vertex.id = edge.dst
Linked(op, vertex, edge) ==
    \/ ScanOf(op) = VertexLookup(vertex, EdgeDst(edge))
    \/ /\ op.operator = "PredicateFilter"
       /\ InSeq(Expr_BinaryOp("Eq", Expr_IdExpr(vertex), EdgeDst(edge)), op.predicates)

\* the operators of the plan that lower the vertex
OperatorsOfVertex(plan, vertex) ==
    LET operators == PathOf(plan).operators
    IN  {operators[i] : i \in {j \in DOMAIN operators : Lowered(operators[j]) = <<vertex, "vertex">>}}

\* C24: for every triplet of the pattern the operator lowered for dst is a
\* VertexLookup on edge.dst or carries the predicate dst.id = edge.dst, also
\* when dst was lowered for an earlier triplet.
C24_EveryDstIsLinkedToItsEdge ==
    (res # NoRes /\ arg.pattern = "path")
    => /\ ~IsPanic(res.val)
       /\ \A i \in DOMAIN arg.graph_pattern.triplets :
             LET triplet == arg.graph_pattern.triplets[i]
             IN  \E op \in OperatorsOfVertex(res.val, triplet.dst.s) :
                     Linked(op, triplet.dst.s, triplet.edge.s)

\* the walk meets the dst of triplet i there for the first time
FirstMetAsDst(triplets, i) ==
    /\ triplets[i].dst.s # triplets[i].src.s
    /\ \A j \in 1..(i - 1) : triplets[i].dst.s \notin {triplets[j].src.s, triplets[j].dst.s}

\* what the planner does: a dst is linked to the edge of the triplet where
\* the walk first meets it, and to that edge alone
OnlyTheFirstDstIsLinked ==
    (res # NoRes /\ arg.pattern = "path")
    => /\ ~IsPanic(res.val)
       /\ \A i \in DOMAIN arg.graph_pattern.triplets :
             LET triplet == arg.graph_pattern.triplets[i]
             IN  (\E op \in OperatorsOfVertex(res.val, triplet.dst.s) :
                      Linked(op, triplet.dst.s, triplet.edge.s))
                 <=> \E j \in 1..i :
                        /\ FirstMetAsDst(arg.graph_pattern.triplets, j)
                        /\ arg.graph_pattern.triplets[j].dst.s = triplet.dst.s
                        /\ arg.graph_pattern.triplets[j].edge.s = triplet.edge.s

-----------------------------------------------------------------------------
(* The scope and the plan of one WHERE: SELECT * FROM (a) - [e] -> (b)     *)
(* with up to MaxWhere comparisons joined by AND or by OR, among them      *)
(* comparisons of properties and ids written with the literal first.       *)

MaxWhere == 2

P1 == <<112, 49>>
P2 == <<112, 50>>
\* element.property
Prop(element_name, property) == Expr_CompoundIdentifier(<<element_name, property>>)

\* comparisons that are neither about a label nor about an id
PlainLeaves ==
    {Expr_BinaryOp("Eq", Prop(ElemA, P1), Prop(ElemA, P2)),
     Expr_BinaryOp("Eq", Prop(ElemA, P1), Prop(ElemB, P1)),
     Expr_BinaryOp("Eq", Expr_String(<<120>>), Expr_String(<<121>>)),
     Expr_BinaryOp("Eq", Prop(ElemA, P1), Expr_String(<<120>>)),
     Expr_BinaryOp("Eq", Prop(ElemE, P1), Expr_String(<<120>>))}

\* 'k' OP a.id
MirroredIdLeaf(element_name, op, k) ==
    Expr_BinaryOp(op, Expr_String(k), Expr_IdExpr(element_name))

Bounds == {"Gt", "Lt", "Gte", "Lte"}

WhereLeaves ==
    PlainLeaves
    \cup {IdLeaf(ElemA, op, K1) : op \in Bounds \cup {"Eq"}}
    \cup {MirroredIdLeaf(ElemA, op, K1) : op \in Bounds}
    \cup {Expr_BinaryOp("Eq", Expr_LabelExpr(ElemA), Expr_String(<<112>>)),
          IdLeaf(ElemB, "Gt", K1)}

WhereInit ==
    /\ db = new_tmp
    /\ calls = NoCalls
    /\ ret = NoRet
    /\ props = <<>>
    /\ plog = <<>>
    /\ held = {}
    /\ mid = NoMid
    /\ early = FALSE
    /\ issued = 0
    /\ \E n \in 0..MaxWhere, connective \in {"And", "Or"} :
          \E leaves \in [1..n -> WhereLeaves] :
              arg = [kind |-> "where", leaves |-> leaves, connective |-> connective,
                     items |-> <<Expr_Wildcard>>,
                     graph_pattern |-> PatternOf("out"),
                     condition |-> IF leaves = <<>> THEN None
                                   ELSE Some(Joined(leaves, connective))]
    /\ res = NoRes

\* Scope::parse_select_query on a new scope, as Planner::build_select_query
\* starts, and the plan of Planner::build_select_query
Analyze ==
    /\ res = NoRes
    /\ arg.kind = "where"
    /\ res' = Returned(
                 [scope |-> parse_select_query(Scope_new, arg.items, arg.graph_pattern,
                                               arg.condition),
                  plan |-> build_select_query(arg.items, arg.graph_pattern,
                                              arg.condition)])
    /\ UNCHANGED <<arg, notPure>>

WhereNext == Analyze

WhereSpec == WhereInit /\ [][WhereNext]_vars

Analyzed == res # NoRes /\ ~IsPanic(res.val.scope)
WherePlanned == res # NoRes /\ ~IsPanic(res.val.plan)

Mentions(expr) ==
    IF expr.variant = "CompoundIdentifier" THEN <<expr.idents[1]>> ELSE <<>>
MentionsOfLeaf(leaf) == Mentions(leaf.left) \o Mentions(leaf.right)
Range(seq) == {seq[i] : i \in DOMAIN seq}

\* the predicates the scope attached to an element
PredicatesOf(scope, element_name) ==
    IF element_name \in DOMAIN scope.vertices THEN scope.vertices[element_name].predicates
    ELSE scope.edges[element_name].predicates

ScopeElements == {ElemA, ElemB, ElemE}

\* C23: a leaf of the WHERE goes to the predicates of an element exactly
\* when the set of the elements it mentions has that one member, however
\* often it mentions it (a.p1 = a.p2); a leaf that mentions no element or
\* two distinct ones is kept as a top-level residual condition.
C23_OneDistinctElementAttaches ==
    Analyzed
    => \A i \in DOMAIN arg.leaves :
          arg.leaves[i] \in PlainLeaves
          => LET leaf == arg.leaves[i]
                 distinct == Range(MentionsOfLeaf(leaf))
             IN  /\ \A element_name \in ScopeElements :
                        InSeq(leaf, PredicatesOf(res.val.scope, element_name))
                        <=> distinct = {element_name}
                 /\ InSeq(leaf, res.val.scope.conditions) <=> Cardinality(distinct) # 1

\* what the scope does: it counts the mentions, so that a leaf goes to an
\* element when it mentions elements once in all
OneMentionAttaches ==
    Analyzed
    => \A i \in DOMAIN arg.leaves :
          arg.leaves[i] \in PlainLeaves
          => LET leaf == arg.leaves[i]
                 mentions == MentionsOfLeaf(leaf)
             IN  /\ \A element_name \in ScopeElements :
                        InSeq(leaf, PredicatesOf(res.val.scope, element_name))
                        <=> mentions = <<element_name>>
                 /\ InSeq(leaf, res.val.scope.conditions) <=> Len(mentions) # 1

\* the comparator and the residual of a.id OP 'k'
ComparatorOf(op, k) ==
    IF op \in {"Gt", "Gte"} THEN Comparator_Gte(Expr_String(k))
    ELSE Comparator_Lte(Expr_String(k))
ResidualOf(element_name, op, k) ==
    IF op \in {"Gt", "Lt"} THEN <<NotIn(element_name, k)>> ELSE <<>>

\* OP the other way round: 'k' < a.id is a.id > 'k'
Mirror(op) ==
    CASE op = "Gt" -> "Lt" [] op = "Lt" -> "Gt" [] op = "Gte" -> "Lte" [] op = "Lte" -> "Gte"

\* C25: an id comparison with the literal on the left gives the comparator
\* and the residual of its mirrored form: 'k' < a.id as a.id > 'k', Gte('k')
\* and NOT in(a.id, 'k'); 'k' >= a.id as a.id <= 'k', Lte('k').
C25_LiteralOnTheLeftIsMirrored ==
    \A op \in Bounds :
        /\ (Analyzed /\ arg.leaves = <<IdLeaf(ElemA, op, K1)>>)
           => /\ res.val.scope.vertices[ElemA].id = <<ComparatorOf(op, K1)>>
              /\ res.val.scope.vertices[ElemA].predicates = ResidualOf(ElemA, op, K1)
        /\ (Analyzed /\ arg.leaves = <<MirroredIdLeaf(ElemA, op, K1)>>)
           => /\ res.val.scope.vertices[ElemA].id = <<ComparatorOf(Mirror(op), K1)>>
              /\ res.val.scope.vertices[ElemA].predicates
                     = ResidualOf(ElemA, Mirror(op), K1)

\* what the scope does: the operator is taken as it is written, whichever
\* side the id is on
LiteralOnTheLeftIsTakenAsWritten ==
    \A op \in Bounds :
        (Analyzed /\ arg.leaves \in {<<IdLeaf(ElemA, op, K1)>>, <<MirroredIdLeaf(ElemA, op, K1)>>})
        => /\ res.val.scope.vertices[ElemA].id = <<ComparatorOf(op, K1)>>
           /\ res.val.scope.vertices[ElemA].predicates = ResidualOf(ElemA, op, K1)

\* C26: a leaf under an OR narrows no scan: with the leaves of the WHERE
\* joined by OR no vertex gets an id comparator and no element a label, and
\* a plan is returned.
C26_OrNarrowsNoScan ==
    (res # NoRes /\ arg.connective = "Or" /\ Len(arg.leaves) >= 2)
    => /\ ~IsPanic(res.val.scope) /\ ~IsPanic(res.val.plan)
       /\ \A v \in DOMAIN res.val.scope.vertices :
             /\ res.val.scope.vertices[v].id = <<>>
             /\ res.val.scope.vertices[v].label = None
       /\ \A e \in DOMAIN res.val.scope.edges : res.val.scope.edges[e].label = None

\* what the scope does: it takes its comparators and labels from the leaves
\* of an OR as from the leaves of an AND
OrIsReadAsAnd ==
    \A leaves \in [1..2 -> WhereLeaves] :
        parse_select_query(Scope_new, <<Expr_Wildcard>>, PatternOf("out"),
                           Some(Joined(leaves, "Or"))).vertices
        = parse_select_query(Scope_new, <<Expr_Wildcard>>, PatternOf("out"),
                             Some(Joined(leaves, "And"))).vertices

-----------------------------------------------------------------------------
(* Callers that hold copies of one element.  The handlers return and take  *)
(* Vertex and Edge values; a caller may hold two of them for the same      *)
(* element and use them in turn.  The vertex handler writes the VERTEX     *)
(* tree only and the edge handler the EDGE tree only, so a run works on    *)
(* vertices or on edges.                                                   *)

\* largest prop_id a property counter hands out
MaxCopyPropId == 1

\* the caller's variables that hold a Vertex or an Edge
CopySlots == {1, 2}
\* "u1"
CopyVertexIds == { <<117, 49>> }
CopyLabels == {7, 8}
CopyPropIds == 0..MaxCopyPropId

CopyInit ==
    /\ db = new_tmp
    /\ calls = NoCalls
    /\ ret = NoRet
    /\ props = <<>>
    /\ plog = NoLog
    /\ held = [s \in CopySlots |-> None]
    /\ mid = NoMid
    /\ early = <<>>
    /\ issued = [schema |-> <<>>, edge |-> <<>>, props |-> <<>>]
    /\ arg \in {[kind |-> "vertex"], [kind |-> "edge"]}
    /\ res = NoRes

\* ghost: the prop_ids the counters handed out, in the order of the calls,
\* each with its element, whether the element was removed since and whether
\* it was created again after that
IssueProp(elem, id) ==
    [issued EXCEPT !.props = Append(@, [elem |-> elem, id |-> id,
                                        removed |-> FALSE, recreated |-> FALSE])]

MarkRemoved(elem) ==
    [issued EXCEPT !.props =
        [i \in DOMAIN @ |-> IF @[i].elem = elem THEN [@[i] EXCEPT !.removed = TRUE]
                            ELSE @[i]]]

MarkRecreated(elem) ==
    [issued EXCEPT !.props =
        [i \in DOMAIN @ |-> IF @[i].elem = elem /\ @[i].removed
                            THEN [@[i] EXCEPT !.recreated = TRUE]
                            ELSE @[i]]]

\* the prop_ids of the records of a blob, in the order of the records
PropIdsOf(data) ==
    LET recs == read_all(data).recs IN [i \in 1..Len(recs) |-> from_be_bytes(recs[i].id)]

LastPropId(data) == PropIdsOf(data)[Len(PropIdsOf(data))]

\* the blob of the stored row of a vertex, empty without a row
StoredVertexBlob(store, id) ==
    IF get_vertex(store, id) = None THEN <<>> ELSE get_vertex(store, id).properties

\* the blob of the stored OUT row of an edge, empty without a row
StoredEdgeBlob(store, edge) ==
    LET Blob(r) == IF r = None \/ r = Panic THEN <<>> ELSE r.properties
    IN  Blob(get_edge(store, edge.src_vertex_id, edge.dst_vertex_id, edge.label,
                      edge.edge_id, "Out"))

\* the prop_ids of a blob that another blob no longer has
Lost(before, after) == Range(PropIdsOf(before)) \ Range(PropIdsOf(after))

\* the row of the id holds another label and properties
Replaces(store, id, label) ==
    /\ get_vertex(store, id) # None
    /\ get_vertex(store, id).label # label
    /\ get_vertex(store, id).properties # <<>>

CopyCreateVertex(slot, id, label) ==
    /\ arg.kind = "vertex"
    /\ LET Done(r) ==
               /\ db' = r.db
               /\ held' = [held EXCEPT ![slot] = r.vertex]
       IN  Done(create_vertex(db, id, label))
    /\ ret' = [op |-> "create_vertex", id |-> id, label |-> label,
               replaced |-> Replaces(db, id, label)]
    /\ issued' = MarkRecreated(id)
    /\ UNCHANGED <<pureVars, notHandler, early>>

CopyRemoveVertex(id) ==
    /\ arg.kind = "vertex"
    /\ db' = remove_vertex(db, id)
    /\ ret' = [op |-> "remove_vertex", id |-> id]
    /\ issued' = MarkRemoved(id)
    /\ UNCHANGED <<pureVars, notHandler, early, held>>

\* the caller keeps the vertex it was given
CopyGetVertex(slot, id) ==
    /\ arg.kind = "vertex"
    /\ LET Done(r) ==
               /\ held' = IF r = None THEN held ELSE [held EXCEPT ![slot] = r]
               /\ ret' = [op |-> "get_vertex", slot |-> slot, found |-> r # None]
       IN  Done(get_vertex(db, id))
    /\ UNCHANGED <<pureVars, notHandler, early, db, issued>>

CopyVertexAddProperty(slot, key_id, value) ==
    /\ arg.kind = "vertex"
    /\ held[slot] # None
    /\ NextCount(db, VERTEX_TABLE_NAME, VertexPropAutoIncrementKey(held[slot].id))
           <= MaxCopyPropId
    /\ LET Done(r) ==
               /\ db' = r.db
               /\ held' = [held EXCEPT ![slot] = r.vertex]
               /\ ret' = [op |-> "add_property", slot |-> slot,
                          lost |-> Lost(StoredVertexBlob(db, r.vertex.id),
                                        StoredVertexBlob(r.db, r.vertex.id))]
               /\ issued' = IssueProp(r.vertex.id, LastPropId(r.vertex.properties))
       IN  Done(Vertex_add_property(db, held[slot], key_id, value))
    /\ UNCHANGED <<pureVars, notHandler, early>>

CopyVertexRemoveProperty(slot, key_id, prop_id) ==
    /\ arg.kind = "vertex"
    /\ held[slot] # None
    /\ LET Done(r) ==
               /\ db' = r.db
               /\ held' = [held EXCEPT ![slot] = r.vertex]
       IN  Done(Vertex_remove_property(db, held[slot], key_id, prop_id))
    /\ ret' = [op |-> "remove_property", slot |-> slot]
    /\ UNCHANGED <<pureVars, notHandler, early, issued>>

\* no edge was made on the store yet
NoEdgeYet == get(db, EDGE_TABLE_NAME, EdgeAutoIncrementKey) = None

\* the run makes one edge: a later create_edge would make an edge with an
\* id and a property counter of its own
CopyCreateEdge(slot, src, dst, label) ==
    /\ arg.kind = "edge"
    /\ NoEdgeYet
    /\ LET Done(r) ==
               /\ db' = r.db
               /\ held' = [held EXCEPT ![slot] = r.edge]
       IN  Done(create_edge(db, src, dst, label))
    /\ ret' = [op |-> "create_edge", slot |-> slot]
    /\ UNCHANGED <<pureVars, notHandler, early, issued>>

CopyRemoveEdge(slot) ==
    /\ arg.kind = "edge"
    /\ held[slot] # None
    /\ db' = remove_edge(db, held[slot])
    /\ ret' = [op |-> "remove_edge", slot |-> slot]
    /\ issued' = MarkRemoved(held[slot].edge_id)
    /\ UNCHANGED <<pureVars, notHandler, early, held>>

\* the caller keeps the edge it was given
CopyGetEdge(slot, src, dst, label, edge_id, direction) ==
    /\ arg.kind = "edge"
    /\ LET Done(r) ==
               /\ held' = IF r = None \/ r = Panic THEN held
                          ELSE [held EXCEPT ![slot] = r]
               /\ ret' = [op |-> "get_edge", slot |-> slot, found |-> r # None]
       IN  Done(get_edge(db, src, dst, label, edge_id, direction))
    /\ UNCHANGED <<pureVars, notHandler, early, db, issued>>

CopyEdgeAddProperty(slot, key_id, value) ==
    /\ arg.kind = "edge"
    /\ held[slot] # None
    /\ NextCount(db, EDGE_TABLE_NAME, EdgePropAutoIncrementKey(held[slot].edge_id))
           <= MaxCopyPropId
    /\ LET Done(r) ==
               /\ db' = r.db
               /\ held' = [held EXCEPT ![slot] = r.edge]
               /\ ret' = [op |-> "add_property", slot |-> slot,
                          lost |-> Lost(StoredEdgeBlob(db, r.edge),
                                        StoredEdgeBlob(r.db, r.edge))]
               /\ issued' = IssueProp(r.edge.edge_id, LastPropId(r.edge.properties))
       IN  Done(Edge_add_property(db, held[slot], key_id, value))
    /\ UNCHANGED <<pureVars, notHandler, early>>

CopyEdgeRemoveProperty(slot, key_id, prop_id) ==
    /\ arg.kind = "edge"
    /\ held[slot] # None
    /\ LET Done(r) ==
               /\ db' = r.db
               /\ held' = [held EXCEPT ![slot] = r.edge]
       IN  Done(Edge_remove_property(db, held[slot], key_id, prop_id))
    /\ ret' = [op |-> "remove_property", slot |-> slot]
    /\ UNCHANGED <<pureVars, notHandler, early, issued>>

CopyNext ==
    \/ \E slot \in CopySlots, id \in CopyVertexIds, label \in CopyLabels :
          CopyCreateVertex(slot, id, label)
    \/ \E id \in CopyVertexIds : CopyRemoveVertex(id)
    \/ \E slot \in CopySlots, id \in CopyVertexIds : CopyGetVertex(slot, id)
    \/ \E slot \in CopySlots, key_id \in EdgePropKeyIds, value \in EdgeValues :
          CopyVertexAddProperty(slot, key_id, value)
    \/ \E slot \in CopySlots, key_id \in EdgePropKeyIds, prop_id \in SUBSET CopyPropIds :
          CopyVertexRemoveProperty(slot, key_id, prop_id)
    \/ \E slot \in CopySlots, label \in EdgeLabelIds :
          CopyCreateEdge(slot, <<117, 49>>, <<117, 50>>, label)
    \/ \E slot \in CopySlots : CopyRemoveEdge(slot)
    \/ \E slot \in CopySlots, label \in EdgeLabelIds, edge_id \in EdgeIds,
          direction \in Directions :
          CopyGetEdge(slot, <<117, 49>>, <<117, 50>>, label, edge_id, direction)
    \/ \E slot \in CopySlots, key_id \in EdgePropKeyIds, value \in EdgeValues :
          CopyEdgeAddProperty(slot, key_id, value)
    \/ \E slot \in CopySlots, key_id \in EdgePropKeyIds, prop_id \in SUBSET CopyPropIds :
          CopyEdgeRemoveProperty(slot, key_id, prop_id)

CopySpec == CopyInit /\ [][CopyNext]_vars

\* C27: create_vertex(id, label) on an id that has a row replaces the row:
\* get_vertex(id) then returns the new label with an empty properties blob,
\* and none of the properties stored before.
C27_CreateReplacesTheRow ==
    ret.op = "create_vertex"
        => get_vertex(db, ret.id) = Vertex(ret.id, ret.label, <<>>)

\* the row that was replaced held another label and a property
C27_Witness ==
    /\ ret.op = "create_vertex" /\ ret.replaced
    /\ get_vertex(db, ret.id) = Vertex(ret.id, ret.label, <<>>)

\* the rows of the element of a copy are the copy
StoredIs(copy) ==
    IF arg.kind = "vertex" THEN get_vertex(db, copy.id) = copy
    ELSE \A direction \in Directions :
             get_edge(db, copy.src_vertex_id, copy.dst_vertex_id, copy.label,
                      copy.edge_id, direction) = copy

\* two copies of one element
SameElement(copy, other) ==
    IF arg.kind = "vertex" THEN copy.id = other.id ELSE copy.edge_id = other.edge_id

\* the blob of the stored row of the element of a copy
StoredBlob(copy) ==
    IF arg.kind = "vertex" THEN StoredVertexBlob(db, copy.id) ELSE StoredEdgeBlob(db, copy)

\* C28: add_property and remove_property of the vertex and the edge handler
\* write the caller's copy as the whole row: after the call the stored blob
\* is the blob of that copy, so that a record written through another copy
\* of the element and missing in this one is no longer stored.
C28_TheCopyIsWrittenAsTheWholeRow ==
    ret.op \in {"add_property", "remove_property"}
        => /\ StoredIs(held[ret.slot])
           /\ \A other \in CopySlots :
                 (held[other] # None /\ SameElement(held[ret.slot], held[other]))
                 => (Range(PropIdsOf(held[other].properties))
                        \ Range(PropIdsOf(held[ret.slot].properties)))
                    \cap Range(PropIdsOf(StoredBlob(held[ret.slot]))) = {}

\* an add_property through one copy has dropped a stored record that the
\* other copy of the element still holds
C28_Witness ==
    /\ ret.op = "add_property" /\ ret.lost # {}
    /\ \E other \in CopySlots \ {ret.slot} :
          /\ held[other] # None
          /\ ret.lost \subseteq Range(PropIdsOf(held[other].properties))

Distinct(seq) == \A i, j \in DOMAIN seq : i # j => seq[i] # seq[j]

\* the rows of the EDGE tree that are edges, decoded
StoredEdges(store) ==
    {Edge_deserialize(k, store[EDGE_TABLE_NAME][k]).edge :
        k \in {j \in DOMAIN store[EDGE_TABLE_NAME] :
                  j[1] \in {ElementType_OutEdge, ElementType_InEdge}}}

\* C29: no stored vertex or edge has two property records with the same
\* prop_id, whatever was created, added, removed and created again, through
\* whichever copy; and the prop_ids handed out for one element strictly
\* increase, also across remove_vertex and a later create_vertex of the id.
C29_PropIdsAreNeverReused ==
    /\ \A id \in CopyVertexIds : Distinct(PropIdsOf(StoredVertexBlob(db, id)))
    /\ \A edge \in StoredEdges(db) : Distinct(PropIdsOf(edge.properties))
    /\ \A i, j \in DOMAIN issued.props :
          (i < j /\ issued.props[i].elem = issued.props[j].elem)
              => issued.props[i].id < issued.props[j].id

\* a vertex got a prop_id, was removed and created again, and then got a
\* larger one, which its row holds
C29_Witness ==
    \E i, j \in DOMAIN issued.props :
        /\ i < j /\ arg.kind = "vertex"
        /\ issued.props[i].recreated /\ ~issued.props[j].removed
        /\ issued.props[i].elem = issued.props[j].elem
        /\ issued.props[i].id < issued.props[j].id
        /\ issued.props[j].id \in Range(PropIdsOf(StoredVertexBlob(db, issued.props[j].elem)))

-----------------------------------------------------------------------------
(* Updates of schema objects under ids that hold no object                 *)

CreateVertexLabelNamed(name) ==
    /\ SchemaIdFree
    /\ LET Done(r) ==
               /\ db' = r.db
               /\ ret' = [op |-> "create_vertex_label", id |-> r.id, name |-> name,
                          over |-> get_vertex_label(db, r.id)]
               /\ issued' = IssueSchema("VertexLabel", r.id, 0)
       IN  Done(create_vertex_label(db, name))
    /\ UNCHANGED <<pureVars, notHandler, held, early>>

\* ret keeps whether the id held an object of the kind and, if it held
\* none, the store the call was made on
UpdateOf(op, id, name, old, r) ==
    /\ db' = r.db
    /\ ret' = [op |-> op, id |-> id, name |-> name, missing |-> old = None,
               before |-> IF old = None THEN db ELSE None]
    /\ UNCHANGED <<pureVars, notHandler, held, early, issued>>

UpdateVertexLabelAt(id, name) ==
    UpdateOf("update_vertex_label", id, name, get_vertex_label(db, id),
             update_vertex_label(db, id, name))

UpdateEdgeLabelAt(id, name) ==
    UpdateOf("update_edge_label", id, name, get_edge_label(db, id),
             update_edge_label(db, id, name))

UpdatePropertyKeyAt(id, name) ==
    UpdateOf("update_property_key", id, name, get_property_key(db, id),
             update_property_key(db, id, name))

UpsertNext ==
    \/ \E name \in Names : CreateVertexLabelNamed(name)
    \/ \E name \in Names, m \in {1} : CreateEdgeLabel(name, m)
    \/ \E name \in Names, c \in {1} : CreatePropertyKey(name, c)
    \/ \E id \in SchemaIds, name \in Names : UpdateVertexLabelAt(id, name)
    \/ \E id \in SchemaIds, name \in Names : UpdateEdgeLabelAt(id, name)
    \/ \E id \in SchemaIds, name \in Names : UpdatePropertyKeyAt(id, name)

UpsertSpec == Init /\ [][UpsertNext]_vars

\* the ids the schema counter has handed out
IssuedSchemaIds == {issued.schema[i].id : i \in DOMAIN issued.schema}

\* C30: update_vertex_label(id, name) on an id without a vertex label writes
\* the label under that id, while update_edge_label and update_property_key
\* on an id without their object leave the store as it was; and
\* create_vertex_label writes its label under the id it is issued, whatever
\* an update had put there.
C30_VertexLabelUpdateIsAnUpsert ==
    /\ ret.op = "update_vertex_label"
          => get_vertex_label(db, ret.id) = [id |-> ret.id, name |-> ret.name]
    /\ (ret.op \in {"update_edge_label", "update_property_key"} /\ ret.missing)
          => db = ret.before
    /\ ret.op = "create_vertex_label"
          => get_vertex_label(db, ret.id) = [id |-> ret.id, name |-> ret.name]

\* a vertex label is stored under an id the counter has not handed out
UpsertedAhead ==
    /\ ret.op = "update_vertex_label" /\ ret.missing
    /\ ret.id \notin IssuedSchemaIds
    /\ get_vertex_label(db, ret.id) # None

\* create_vertex_label was issued an id that held a label of another name,
\* put there by an update, and that label is gone
C30_Witness ==
    /\ ret.op = "create_vertex_label"
    /\ ret.over # None /\ ret.over.name # ret.name
    /\ get_vertex_label(db, ret.id).name = ret.name

====
